---- MODULE Spec2Model ----
(***************************************************************************)
(* Model of the VAC rating core: the reference store and its condition     *)
(* resolver (app_simplified/core/vac_data.py, VACDataManager) and the      *)
(* rating engine (app_simplified/rating/vac_canada.py, VACRatingEngine).   *)
(*                                                                         *)
(* Text is a sequence of character codes (ASCII), so that lower-casing,    *)
(* trimming and the similarity scores are computed, not assumed.           *)
(***************************************************************************)
EXTENDS Integers, Sequences, FiniteSets, TLC

\* store: the reference store; pc, op, arg, res: the call in progress when
\* calls run one at a time; calls: the frames of the calls that run
\* concurrently; heap: the objects those calls have made, by address;
\* returned: the results of earlier calls, kept to compare a repeated call
\* with
VARIABLES store, pc, op, arg, res, calls, heap, returned

vars == <<store, pc, op, arg, res, calls, heap, returned>>

Max2(x, y) == IF x >= y THEN x ELSE y

Min2(x, y) == IF x <= y THEN x ELSE y

\* A local variable: value is computed once and Body applied to it.
Let(value, Body(_)) == CHOOSE r \in {Body(v) : v \in {value}} : TRUE

SetMax(S) ==
    IF S = {} THEN 0
    ELSE LET x == CHOOSE v \in S : \A w \in S : v >= w IN x

\* Python 3 round() of the non-negative rational n/d: to nearest, ties to even.
RoundHalfEven(n, d) ==
    LET q == n \div d
        r == n % d
    IN IF 2 * r < d THEN q
       ELSE IF 2 * r > d THEN q + 1
       ELSE IF q % 2 = 0 THEN q ELSE q + 1

(***************************************************************************)
(* str.lower(), str.strip(), str.split() on ASCII text                     *)
(***************************************************************************)
IsUpperChar(c) == c >= 65 /\ c <= 90

LowerChar(c) == IF IsUpperChar(c) THEN c + 32 ELSE c

Lower(s) == [i \in 1..Len(s) |-> LowerChar(s[i])]

IsSpaceChar(c) == c = 32 \/ (c >= 9 /\ c <= 13) \/ (c >= 28 /\ c <= 31)

RECURSIVE LStrip(_)
LStrip(s) ==
    IF s = <<>> THEN s
    ELSE IF IsSpaceChar(Head(s)) THEN LStrip(Tail(s)) ELSE s

RECURSIVE RStrip(_)
RStrip(s) ==
    IF s = <<>> THEN s
    ELSE IF IsSpaceChar(s[Len(s)]) THEN RStrip(SubSeq(s, 1, Len(s) - 1)) ELSE s

Strip(s) == RStrip(LStrip(s))

\* the characters the regular expression \W does not match: [A-Za-z0-9_]
IsWordChar(c) ==
    \/ (c >= 48 /\ c <= 57)
    \/ (c >= 65 /\ c <= 90)
    \/ (c >= 97 /\ c <= 122)
    \/ c = 95

\* fuzzywuzzy utils.full_process: non-word characters become spaces, then
\* lower-case, then trim.
FullProcess(s) ==
    Strip(Lower([i \in 1..Len(s) |-> IF IsWordChar(s[i]) THEN s[i] ELSE 32]))

\* str.split(): the maximal runs of non-space characters, in order
RECURSIVE SplitFrom(_, _)
SplitFrom(s, cur) ==
    IF s = <<>> THEN (IF cur = <<>> THEN <<>> ELSE <<cur>>)
    ELSE IF IsSpaceChar(Head(s))
         THEN (IF cur = <<>> THEN <<>> ELSE <<cur>>) \o SplitFrom(Tail(s), <<>>)
         ELSE SplitFrom(Tail(s), Append(cur, Head(s)))

Split(s) == SplitFrom(s, <<>>)

\* Python's order on str: lexicographic by code point
RECURSIVE StrLE(_, _)
StrLE(a, b) ==
    IF a = <<>> THEN TRUE
    ELSE IF b = <<>> THEN FALSE
    ELSE IF Head(a) < Head(b) THEN TRUE
    ELSE IF Head(a) > Head(b) THEN FALSE
    ELSE StrLE(Tail(a), Tail(b))

\* sorted(tokens): insertion into an already sorted list
RECURSIVE InsertSorted(_, _)
InsertSorted(t, ts) ==
    IF ts = <<>> THEN <<t>>
    ELSE IF StrLE(t, Head(ts)) THEN <<t>> \o ts
    ELSE <<Head(ts)>> \o InsertSorted(t, Tail(ts))

RECURSIVE SortTokens(_)
SortTokens(ts) ==
    IF ts = <<>> THEN <<>>
    ELSE InsertSorted(Head(ts), SortTokens(Tail(ts)))

\* " ".join(tokens)
RECURSIVE JoinSpace(_)
JoinSpace(ts) ==
    IF ts = <<>> THEN <<>>
    ELSE IF Len(ts) = 1 THEN Head(ts)
    ELSE Head(ts) \o <<32>> \o JoinSpace(Tail(ts))

\* fuzz._process_and_sort
ProcessAndSort(s) == Strip(JoinSpace(SortTokens(Split(FullProcess(s)))))

(***************************************************************************)
(* difflib.SequenceMatcher(None, a, b): no junk function, autojunk on      *)
(***************************************************************************)
\* __chain_b, the popular characters of the second sequence: when it has 200
\* characters or more, those that occur more than len(b) // 100 + 1 times.
\* They are taken out of the index of b, so no match starts from them.
Popular(b) ==
    IF Len(b) < 200 THEN {}
    ELSE {c \in {b[i] : i \in 1..Len(b)} :
             Cardinality({i \in 1..Len(b) : b[i] = c}) > (Len(b) \div 100) + 1}

\* find_longest_match, the first loop of extension: the block grows to the
\* left while the characters before it are equal (no character is junk)
RECURSIVE ExtendLeft(_, _, _, _, _)
ExtendLeft(a, b, alo, blo, m) ==
    IF m[1] > alo /\ m[2] > blo /\ a[m[1] - 1] = b[m[2] - 1]
    THEN ExtendLeft(a, b, alo, blo, <<m[1] - 1, m[2] - 1, m[3] + 1>>)
    ELSE m

\* find_longest_match, the second loop of extension: the block grows to the
\* right while the characters after it are equal
RECURSIVE ExtendRight(_, _, _, _, _)
ExtendRight(a, b, ahi, bhi, m) ==
    IF m[1] + m[3] <= ahi /\ m[2] + m[3] <= bhi /\ a[m[1] + m[3]] = b[m[2] + m[3]]
    THEN ExtendRight(a, b, ahi, bhi, <<m[1], m[2], m[3] + 1>>)
    ELSE m

\* find_longest_match on a[alo..ahi], b[blo..bhi] (1-based, inclusive): the
\* longest common block without a popular character, the earliest in a, then
\* the earliest in b (none: the empty block at alo, blo); then the block
\* extended to the left and to the right over equal characters, popular or
\* not.
FindLongestMatch(a, b, alo, ahi, blo, bhi) ==
    Let(Popular(b), LAMBDA popular :
    Let({c \in (alo..ahi) \X (blo..bhi) \X (1..(ahi - alo + 1)) :
            /\ c[1] + c[3] - 1 <= ahi
            /\ c[2] + c[3] - 1 <= bhi
            /\ \A d \in 0..(c[3] - 1) :
                   a[c[1] + d] = b[c[2] + d] /\ b[c[2] + d] \notin popular},
        LAMBDA cands :
            Let(IF cands = {} THEN <<alo, blo, 0>>
                ELSE CHOOSE c \in cands : \A o \in cands :
                         \/ c[3] > o[3]
                         \/ (c[3] = o[3] /\ c[1] < o[1])
                         \/ (c[3] = o[3] /\ c[1] = o[1] /\ c[2] <= o[2]),
                LAMBDA best :
                    ExtendRight(a, b, ahi, bhi,
                                ExtendLeft(a, b, alo, blo, best)))))

\* get_matching_blocks without the closing sentinel: the longest match, then
\* the blocks to its left and to its right.
RECURSIVE MatchingBlocks(_, _, _, _, _, _)
MatchingBlocks(a, b, alo, ahi, blo, bhi) ==
    IF alo > ahi \/ blo > bhi THEN {}
    ELSE Let(FindLongestMatch(a, b, alo, ahi, blo, bhi),
             LAMBDA m :
                 IF m[3] = 0 THEN {}
                 ELSE {m}
                      \cup MatchingBlocks(a, b, alo, m[1] - 1, blo, m[2] - 1)
                      \cup MatchingBlocks(a, b, m[1] + m[3], ahi, m[2] + m[3], bhi))

RECURSIVE SumSizes(_)
SumSizes(blocks) ==
    IF blocks = {} THEN 0
    ELSE LET m == CHOOSE x \in blocks : TRUE
         IN m[3] + SumSizes(blocks \ {m})

\* The ties k + 1/2 of 100 * ratio that the floating-point product misses.
\* A tie means ratio = (2k + 1)/200 with k in 0..99, and the float nearest to
\* that fraction times 100 is the same whatever matches and length give it:
\* a little above the tie for the k of FloatAboveTie, a little below for the
\* k of FloatBelowTie, the tie itself for every other k.
FloatAboveTie == {3, 27, 54, 55}

FloatBelowTie == {14, 28, 56, 57}

\* int(round(100 * (2.0 * matches / length))), computed in floating point as
\* the code does: off a tie the nearest integer; at a tie the side the float
\* fell on, and half to even when the float is the tie itself
RoundRatio(matches, length) ==
    LET q == (200 * matches) \div length
        r == (200 * matches) % length
    IN IF 2 * r < length THEN q
       ELSE IF 2 * r > length THEN q + 1
       ELSE IF q \in FloatAboveTie THEN q + 1
       ELSE IF q \in FloatBelowTie THEN q
       ELSE IF q % 2 = 0 THEN q ELSE q + 1

\* int(round(100 * SequenceMatcher(None, a, b).ratio())), ratio = 2.0*M/T
SeqRatio100(a, b) ==
    IF Len(a) + Len(b) = 0 THEN 100
    ELSE RoundRatio(SumSizes(MatchingBlocks(a, b, 1, Len(a), 1, Len(b))),
                    Len(a) + Len(b))

(***************************************************************************)
(* fuzzywuzzy.fuzz scorers, 0..100                                         *)
(***************************************************************************)
FuzzRatio(s1, s2) ==
    IF s1 = s2 THEN 100
    ELSE IF Len(s1) = 0 \/ Len(s2) = 0 THEN 0
    ELSE SeqRatio100(s1, s2)

\* the ratio of shorter against the window of longer that starts after ls
\* characters and is as long as shorter (or ends with longer)
WindowRatio(shorter, longer, ls) ==
    SeqRatio100(shorter,
                SubSeq(longer, ls + 1, Min2(ls + Len(shorter), Len(longer))))

\* partial_ratio: one window per matching block (the block's start in longer
\* minus its start in shorter, not below 0) and one for the closing sentinel
\* (len(shorter), len(longer), 0); the best window's ratio
PartialRatioOf(shorter, longer) ==
    Let(MatchingBlocks(shorter, longer, 1, Len(shorter), 1, Len(longer)),
        LAMBDA blocks :
            SetMax({WindowRatio(shorter, longer, ls) :
                       ls \in {Max2(0, m[2] - m[1]) : m \in blocks}
                                  \cup {Len(longer) - Len(shorter)}}))

FuzzPartialRatio(s1, s2) ==
    IF s1 = s2 THEN 100
    ELSE IF Len(s1) = 0 \/ Len(s2) = 0 THEN 0
    ELSE IF Len(s1) <= Len(s2) THEN PartialRatioOf(s1, s2)
    ELSE PartialRatioOf(s2, s1)

FuzzTokenSortRatio(s1, s2) ==
    Let(ProcessAndSort(s1), LAMBDA sorted1 :
    Let(ProcessAndSort(s2), LAMBDA sorted2 :
        FuzzRatio(sorted1, sorted2)))

(***************************************************************************)
(* Python values whose shape the callers do not guarantee                  *)
(***************************************************************************)
PyStr(s) == [type |-> "str", val |-> s]

PyList(l) == [type |-> "list", val |-> l]

PyNone == [type |-> "NoneType", val |-> <<>>]

\* bool(v): None, "" and [] are falsy
Truthy(v) == v.type # "NoneType" /\ v.val # <<>>

\* "None"
NoneText == <<78, 111, 110, 101>>

\* the two hexadecimal digits of a character code
HexDigits(c) ==
    LET digit(n) == IF n < 10 THEN 48 + n ELSE 87 + n
    IN <<digit(c \div 16), digit(c % 16)>>

\* repr() of one character of an ASCII str between the quotes q: the quote
\* and the backslash escaped, \t \n \r, \xhh for the other control characters
ReprChar(c, q) ==
    IF c = q \/ c = 92 THEN <<92, c>>
    ELSE IF c = 9 THEN <<92, 116>>
    ELSE IF c = 10 THEN <<92, 110>>
    ELSE IF c = 13 THEN <<92, 114>>
    ELSE IF c < 32 \/ c = 127 THEN <<92, 120>> \o HexDigits(c)
    ELSE <<c>>

RECURSIVE ReprChars(_, _)
ReprChars(s, q) ==
    IF s = <<>> THEN <<>> ELSE ReprChar(Head(s), q) \o ReprChars(Tail(s), q)

\* repr() of a str: in single quotes, in double quotes when it holds a single
\* quote and no double quote
ReprStr(s) ==
    Let(IF (\E i \in 1..Len(s) : s[i] = 39) /\ ~(\E i \in 1..Len(s) : s[i] = 34)
        THEN 34 ELSE 39,
        LAMBDA q : <<q>> \o ReprChars(s, q) \o <<q>>)

\* repr() of the items of a list of str, joined by ", "
RECURSIVE ReprItems(_)
ReprItems(l) ==
    IF l = <<>> THEN <<>>
    ELSE IF Len(l) = 1 THEN ReprStr(Head(l))
    ELSE ReprStr(Head(l)) \o <<44, 32>> \o ReprItems(Tail(l))

\* str(v) inside an f-string: a str as it is, None as "None", a list of str
\* as its repr, "['aa', 'aa']"
Format(v) ==
    IF v.type = "NoneType" THEN NoneText
    ELSE IF v.type = "list" THEN <<91>> \o ReprItems(v.val) \o <<93>>
    ELSE v.val

\* needle in hay, for str
Contains(hay, needle) ==
    \E i \in 0..(Len(hay) - Len(needle)) :
        SubSeq(hay, i + 1, i + Len(needle)) = needle

(***************************************************************************)
(* VACDataManager: the store and its search index                          *)
(***************************************************************************)
\* _build_search_index, the terms of one condition: name, description,
\* keywords, symptoms; the empty ones dropped, the rest lower-cased and trimmed
SearchTerms(condition) ==
    LET terms == <<condition.name, condition.description>>
                     \o condition.keywords \o condition.symptoms
        kept == SelectSeq(terms, LAMBDA t : t # <<>>)
    IN [i \in 1..Len(kept) |-> Strip(Lower(kept[i]))]

\* _build_search_index: one entry per condition, in the order of the index
BuildSearchIndex(conditions_index) ==
    [i \in 1..Len(conditions_index) |->
        [condition    |-> conditions_index[i],
         search_terms |-> SearchTerms(conditions_index[i]),
         primary_name |-> Lower(conditions_index[i].name)]]

\* __init__ / _build_indexes over a dataset's conditions section
BuildStore(dataset) ==
    [conditions_index |-> dataset,
     search_index     |-> BuildSearchIndex(dataset)]

\* find_condition's default threshold
DefaultThreshold == 70

\* the score of one indexed term: the largest of the three similarities
TermScore(q, term) ==
    Max2(FuzzRatio(q, term),
         Max2(FuzzPartialRatio(q, term), FuzzTokenSortRatio(q, term)))

\* ScanTerm with the exact match scored like any other term (score 100)
\* instead of ending the scan
ScanTerm_exactOnlyScores(q, term, condition, st) ==
    IF term = <<>> THEN st
    ELSE Let(TermScore(q, term), LAMBDA score :
             IF score > st.best_score
             THEN [st EXCEPT !.best_score = score, !.best_match = <<condition>>]
             ELSE st)

\* find_condition, what one search term does to the scan.  st holds
\* best_match (<<>> is None), best_score and returned (the exact match that
\* ended the scan, if any).
ScanTerm(q, term, condition, st) ==
    IF term = <<>> THEN st
    ELSE IF q = term THEN [st EXCEPT !.returned = <<condition>>]
    ELSE Let(TermScore(q, term), LAMBDA score :
             IF score > st.best_score
             THEN [st EXCEPT !.best_score = score, !.best_match = <<condition>>]
             ELSE st)

\* find_condition, the loop over one condition's search terms
RECURSIVE ScanTerms(_, _, _, _)
ScanTerms(q, terms, condition, st) ==
    IF terms = <<>> \/ st.returned # <<>> THEN st
    ELSE Let(ScanTerm(q, Head(terms), condition, st),
             LAMBDA st2 : ScanTerms(q, Tail(terms), condition, st2))

\* find_condition, the check of the primary name that opens each iteration
ScanPrimary(q, e, st) ==
    Let(FuzzRatio(q, e.primary_name), LAMBDA primary_score :
        IF primary_score > st.best_score
        THEN [st EXCEPT !.best_score = primary_score, !.best_match = <<e.condition>>]
        ELSE st)

\* find_condition, the loop over the search index: the primary name first,
\* then the terms
RECURSIVE ScanIndex(_, _, _)
ScanIndex(q, idx, st) ==
    IF idx = <<>> \/ st.returned # <<>> THEN st
    ELSE Let(ScanPrimary(q, Head(idx), st), LAMBDA st1 :
         Let(ScanTerms(q, Head(idx).search_terms, Head(idx).condition, st1), LAMBDA st2 :
             ScanIndex(q, Tail(idx), st2)))

Returns(v) == [raised |-> "", value |-> v]

Raises(e) == [raised |-> e, value |-> <<>>]

\* find_condition(condition_name, threshold): Returns(<<>>) is None,
\* Returns(<<c>>) the condition c.  A name that is a non-empty list has no
\* .lower().  With best_score >= threshold and no best match, the log line
\* subscripts None.
FindCondition(idx, condition_name, threshold) ==
    IF ~Truthy(condition_name) \/ idx = <<>> THEN Returns(<<>>)
    ELSE IF condition_name.type # "str" THEN Raises("AttributeError")
    ELSE Let(Strip(Lower(condition_name.val)), LAMBDA q :
         Let(ScanIndex(q, idx, [best_match |-> <<>>, best_score |-> 0, returned |-> <<>>]),
             LAMBDA st :
                 IF st.returned # <<>> THEN Returns(st.returned)
                 ELSE IF st.best_score >= threshold
                      THEN (IF st.best_match = <<>> THEN Raises("TypeError")
                            ELSE Returns(st.best_match))
                 ELSE Returns(<<>>)))

(***************************************************************************)
(* VACDataManager.calculate_basic_rating                                   *)
(***************************************************************************)
\* the keys of severity_ratings: "minimal", "mild", "moderate",
\* "moderately_severe", "severe", "very_severe", "total"
T_minimal == <<109, 105, 110, 105, 109, 97, 108>>

T_mild == <<109, 105, 108, 100>>

T_moderate == <<109, 111, 100, 101, 114, 97, 116, 101>>

T_moderately_severe ==
    <<109, 111, 100, 101, 114, 97, 116, 101, 108, 121, 95, 115, 101, 118, 101, 114, 101>>

T_severe == <<115, 101, 118, 101, 114, 101>>

T_very_severe == <<118, 101, 114, 121, 95, 115, 101, 118, 101, 114, 101>>

T_total == <<116, 111, 116, 97, 108>>

\* severity_ratings.get(label, 20)
SeverityRatings(label) ==
    CASE label = T_minimal           -> 5
      [] label = T_mild              -> 10
      [] label = T_moderate          -> 30
      [] label = T_moderately_severe -> 50
      [] label = T_severe            -> 70
      [] label = T_very_severe       -> 90
      [] label = T_total             -> 100
      [] OTHER                       -> 20

\* SymptomAdjustment that counts one point for a symptom
SymptomAdjustment_onePoint(symptoms) == Min2(Len(symptoms), 20)

\* min(len(symptoms) * 2, 20)
SymptomAdjustment(symptoms) == Min2(Len(symptoms) * 2, 20)

\* FinalRating without its cap of 100
FinalRating_unclamped(base_rating, symptom_adjustment) ==
    base_rating + symptom_adjustment

\* min(base_rating + symptom_adjustment, 100)
FinalRating(base_rating, symptom_adjustment) ==
    Min2(base_rating + symptom_adjustment, 100)

\* NotFoundRationale without the name: "Condition not found in VAC ToD 2019"
NotFoundRationale_withoutName(condition_name) ==
    <<67, 111, 110, 100, 105, 116, 105, 111, 110, 32, 110, 111, 116, 32, 102, 111,
      117, 110, 100, 32, 105, 110, 32, 86, 65, 67, 32, 84, 111, 68, 32, 50, 48, 49, 57>>

\* f"Condition '{condition_name}' not found in VAC ToD 2019"
NotFoundRationale(condition_name) ==
    <<67, 111, 110, 100, 105, 116, 105, 111, 110, 32, 39>>
        \o Format(condition_name)
        \o <<39, 32, 110, 111, 116, 32, 102, 111, 117, 110, 100, 32, 105, 110,
             32, 86, 65, 67, 32, 84, 111, 68, 32, 50, 48, 49, 57>>

\* calculate_basic_rating(condition_name, severity, symptoms): the dict it
\* returns, or the exception of severity.lower() / len(symptoms) on a value
\* of the wrong shape.  len(symptoms) is the number of items of a list and
\* the number of characters of a str; None has no len().  The rationale of
\* a rated condition is kept as its three numbers.
RatedResult(condition, severity, symptoms, base_rating, symptom_adjustment) ==
    [condition           |-> PyStr(condition.name),
     condition_id        |-> condition.id,
     chapter             |-> condition.chapter,
     found               |-> TRUE,
     rating              |-> FinalRating(base_rating, symptom_adjustment),
     base_rating         |-> base_rating,
     symptom_adjustment  |-> symptom_adjustment,
     rationale           |-> <<base_rating, symptom_adjustment, Len(symptoms.val)>>,
     symptoms_considered |-> symptoms]

CalculateBasicRating(idx, condition_name, severity, symptoms) ==
    Let(FindCondition(idx, condition_name, DefaultThreshold), LAMBDA f :
        IF f.raised # "" THEN Raises(f.raised)
        ELSE IF f.value = <<>>
             THEN Returns([condition |-> condition_name,
                           found     |-> FALSE,
                           rating    |-> 0,
                           rationale |-> NotFoundRationale(condition_name)])
        ELSE IF severity.type # "str" THEN Raises("AttributeError")
        ELSE IF symptoms.type \notin {"list", "str"} THEN Raises("TypeError")
        ELSE Returns(RatedResult(f.value[1], severity, symptoms,
                                 SeverityRatings(Lower(severity.val)),
                                 SymptomAdjustment(symptoms.val))))

(***************************************************************************)
(* VACRatingEngine                                                         *)
(***************************************************************************)
\* _evaluate_medical_evidence: the evidence whose lower-cased content holds
\* the lower-cased condition name; content that is no str raises on .lower()
RECURSIVE RelevantEvidence(_, _)
RelevantEvidence(name, medical_evidence) ==
    IF medical_evidence = <<>> THEN 0
    ELSE (IF Contains(Lower(Head(medical_evidence).content.val), Lower(name)) THEN 1 ELSE 0)
         + RelevantEvidence(name, Tail(medical_evidence))

\* EvidenceQuality that asks for three snippets before "adequate"
EvidenceQuality_twoIsLimited(count) ==
    IF count >= 3 THEN "comprehensive"
    ELSE IF count >= 1 THEN "limited"
    ELSE "insufficient"

EvidenceQuality(count) ==
    IF count >= 3 THEN "comprehensive"
    ELSE IF count >= 2 THEN "adequate"
    ELSE IF count = 1 THEN "limited"
    ELSE "insufficient"

EvidenceSupport(count) ==
    [evidence_count      |-> count,
     quality_assessment  |-> EvidenceQuality(count),
     adequacy_for_rating |-> EvidenceQuality(count) \in {"adequate", "comprehensive"}]

\* the loop body calls evidence.get("content", "").lower() and then
\* condition_name.lower(): with evidence to read, a content or a name that
\* is no str raises; with no evidence the name is never touched
EvaluateMedicalEvidence(condition_name, medical_evidence) ==
    IF medical_evidence = <<>> THEN Returns(EvidenceSupport(0))
    ELSE IF condition_name.type # "str"
            \/ \E i \in 1..Len(medical_evidence) : medical_evidence[i].content.type # "str"
    THEN Raises("AttributeError")
    ELSE Returns(EvidenceSupport(RelevantEvidence(condition_name.val, medical_evidence)))

\* _assess_condition, the except branch: the entry of a condition whose
\* assessment raised
ErrorEntry(condition, e) ==
    [condition |-> condition.name,
     tod_found |-> FALSE,
     rating    |-> 0,
     error     |-> e]

\* _assess_condition, the condition was not found
NotFoundEntry(condition) ==
    [condition |-> condition.name,
     tod_found |-> FALSE,
     rating    |-> 0,
     rationale |-> NotFoundRationale(condition.name),
     chapter   |-> "unknown"]

\* FoundEntry that halves the rating of a condition no evidence mentions
FoundEntry_evidenceWeighsIn(condition, tod_condition, rating_result, support) ==
    [condition                |-> condition.name,
     tod_condition_id         |-> tod_condition.id,
     chapter                  |-> tod_condition.chapter,
     tod_found                |-> TRUE,
     rating                   |-> IF support.evidence_count = 0
                                  THEN rating_result.rating \div 2
                                  ELSE rating_result.rating,
     rating_rationale         |-> rating_result.rationale,
     symptoms_matched         |-> rating_result.symptoms_considered,
     medical_evidence_support |-> support,
     base_rating              |-> rating_result.base_rating,
     symptom_adjustment       |-> rating_result.symptom_adjustment]

\* _assess_condition, the entry of a condition that was found and rated
FoundEntry(condition, tod_condition, rating_result, support) ==
    [condition                |-> condition.name,
     tod_condition_id         |-> tod_condition.id,
     chapter                  |-> tod_condition.chapter,
     tod_found                |-> TRUE,
     rating                   |-> rating_result.rating,
     rating_rationale         |-> rating_result.rationale,
     symptoms_matched         |-> rating_result.symptoms_considered,
     medical_evidence_support |-> support,
     base_rating              |-> rating_result.base_rating,
     symptom_adjustment       |-> rating_result.symptom_adjustment]

\* _assess_condition(condition, medical_evidence): find the condition, rate
\* it, weigh the evidence; any exception on the way gives the error entry
AssessCondition(idx, condition, medical_evidence) ==
    Let(FindCondition(idx, condition.name, DefaultThreshold), LAMBDA f :
        IF f.raised # "" THEN ErrorEntry(condition, f.raised)
        ELSE IF f.value = <<>> THEN NotFoundEntry(condition)
        ELSE Let(CalculateBasicRating(idx, condition.name, condition.severity,
                                      condition.symptoms), LAMBDA rating_result :
                 IF rating_result.raised # "" THEN ErrorEntry(condition, rating_result.raised)
                 ELSE Let(EvaluateMedicalEvidence(condition.name, medical_evidence),
                          LAMBDA support :
                              IF support.raised # "" THEN ErrorEntry(condition, support.raised)
                              ELSE IF ~rating_result.value.found
                                   THEN ErrorEntry(condition, "KeyError")
                              ELSE FoundEntry(condition, f.value[1], rating_result.value,
                                              support.value))))

\* the loop of assess_case / calculate_rating over the conditions
RECURSIVE AssessAll(_, _, _)
AssessAll(idx, conditions, medical_evidence) ==
    IF conditions = <<>> THEN <<>>
    ELSE <<AssessCondition(idx, Head(conditions), medical_evidence)>>
             \o AssessAll(idx, Tail(conditions), medical_evidence)

\* c.get(key, default)
Get(c, key, default) == IF key \in DOMAIN c THEN c[key] ELSE default

\* CombineStep that rounds the running total after every step
CombineStep_roundsEachStep(total, rating) ==
    [n |-> RoundHalfEven(100 * total.n + 100 * rating * total.d - total.n * rating,
                         100 * total.d),
     d |-> 1]

\* CombineStep without the division: total + rating - (total * rating)
CombineStep_noDivision(total, rating) ==
    [n |-> total.n + rating * total.d - total.n * rating,
     d |-> total.d]

\* CombineStep dividing by 10: total + rating - (total * rating / 10)
CombineStep_divideBy10(total, rating) ==
    [n |-> 10 * total.n + 10 * rating * total.d - total.n * rating,
     d |-> 10 * total.d]

\* one step of the combination, on the running total n/d (an exact
\* fraction): total + rating - (total * rating / 100)
CombineStep(total, rating) ==
    [n |-> 100 * total.n + 100 * rating * total.d - total.n * rating,
     d |-> 100 * total.d]

\* the for loop over individual_ratings[1:]
RECURSIVE CombineFold(_, _)
CombineFold(total, ratings) ==
    IF ratings = <<>> THEN total
    ELSE Let(CombineStep(total, Head(ratings)),
             LAMBDA next : CombineFold(next, Tail(ratings)))

\* CombineRound truncating: int(total_rating)
CombineRound_truncating(total) == total.n \div total.d

\* int(round(total_rating)) after the loop
CombineRound(total) == RoundHalfEven(total.n, total.d)

\* f"{combined:.1f}": the running total shown to one decimal, as a number of
\* tenths. Python formats the float it computed: off a tie that is the tenth
\* nearest to the exact total; at an exact tie the float lies a little below
\* or a little above the tie, so either neighbour can be shown.
Tenths(total) ==
    LET q == (10 * total.n) \div total.d
        r == (10 * total.n) % total.d
    IN IF 2 * r < total.d THEN {q}
       ELSE IF 2 * r > total.d THEN {q + 1}
       ELSE {q, q + 1}

\* the "Step i: ..." lines of _get_combination_steps, one for each rating
\* after the first: the step number, the running total before the step, the
\* rating and the running total after the step to one decimal
RECURSIVE StepLines(_, _, _)
StepLines(i, combined, ratings) ==
    IF ratings = <<>> THEN <<>>
    ELSE Let(CombineStep(combined, Head(ratings)), LAMBDA next :
             <<[line |-> "Step", i |-> i, old_combined |-> combined,
                rating |-> Head(ratings), combined |-> Tenths(next)]>>
             \o StepLines(i + 1, next, Tail(ratings)))

\* GetCombinationSteps without the closing summary line
GetCombinationSteps_noSummary(ratings) ==
    IF Len(ratings) <= 1
    THEN <<[line |-> "Single condition",
            rating |-> IF ratings # <<>> THEN ratings[1] ELSE 0]>>
    ELSE <<[line |-> "Start with highest rating", combined |-> ratings[1]]>>
         \o StepLines(1, [n |-> ratings[1], d |-> 1], Tail(ratings))

\* _get_combination_steps(ratings): each line is a record of the words it
\* opens with and the numbers it shows
GetCombinationSteps(ratings) ==
    IF Len(ratings) <= 1
    THEN <<[line |-> "Single condition",
            rating |-> IF ratings # <<>> THEN ratings[1] ELSE 0]>>
    ELSE <<[line |-> "Start with highest rating", combined |-> ratings[1]]>>
         \o StepLines(1, [n |-> ratings[1], d |-> 1], Tail(ratings))
         \o <<[line |-> "Final combined rating",
               combined |-> CombineRound(CombineFold([n |-> ratings[1], d |-> 1],
                                                     Tail(ratings)))]>>

\* ValidConditions without the filter on tod_found
ValidConditions_unfiltered(conditions) == conditions

\* [c for c in conditions if c.get("tod_found", False)]
ValidConditions(conditions) ==
    SelectSeq(conditions, LAMBDA c : Get(c, "tod_found", FALSE))

\* [c.get("rating", 0) for c in valid_conditions]
IndividualRatings(valid_conditions) ==
    [i \in 1..Len(valid_conditions) |-> Get(valid_conditions[i], "rating", 0)]

\* Confidence that forgets the single-condition case
Confidence_alwaysMedium(single, pct_applied) == "medium"

\* Confidence that does not look at the pre-existing conditions
Confidence_ignoresPreExisting(single, pct_applied) ==
    IF single THEN "high" ELSE "medium"

\* the confidence label: "high" for a single rating, "medium" for several,
\* "medium" whenever pre-existing conditions are given
Confidence(single, pct_applied) ==
    IF pct_applied THEN "medium"
    ELSE IF single THEN "high" ELSE "medium"

\* total_rating before the closing min(100, ...): the only rating as it is,
\* several ratings combined in their order and rounded once
TotalRating(individual_ratings) ==
    IF Len(individual_ratings) = 1 THEN individual_ratings[1]
    ELSE CombineRound(CombineFold([n |-> individual_ratings[1], d |-> 1],
                                  Tail(individual_ratings)))

\* _calculate_combined_rating, the result for at least one rating
CombinedResult(conditions, valid_conditions, individual_ratings, pre_existing) ==
    [total_rating        |-> Min2(100, TotalRating(individual_ratings)),
     individual_ratings  |-> individual_ratings,
     method              |-> IF Len(individual_ratings) = 1 THEN "single_condition"
                             ELSE "vac_combination_formula",
     pct_applied         |-> pre_existing # <<>>,
     confidence          |-> Confidence(Len(individual_ratings) = 1, pre_existing # <<>>),
     calculation_details |-> [valid_conditions |-> Len(valid_conditions),
                              total_conditions |-> Len(conditions),
                              combination_steps |->
                                  GetCombinationSteps(individual_ratings)]]

\* _calculate_combined_rating(conditions, pre_existing)
CalculateCombinedRating(conditions, pre_existing) ==
    IF conditions = <<>>
    THEN [total_rating |-> 0, method |-> "no_conditions", confidence |-> "low"]
    ELSE Let(ValidConditions(conditions), LAMBDA valid_conditions :
         Let(IndividualRatings(valid_conditions), LAMBDA individual_ratings :
             IF individual_ratings = <<>>
             THEN [total_rating |-> 0, method |-> "no_valid_conditions",
                   confidence |-> "low"]
             ELSE CombinedResult(conditions, valid_conditions, individual_ratings,
                                 pre_existing)))

\* "mental", "ptsd"
T_mental == <<109, 101, 110, 116, 97, 108>>

T_ptsd == <<112, 116, 115, 100>>

(***************************************************************************)
(* VACRatingEngine: functional limitations and recommendations of the      *)
(* quality-of-life assessment                                              *)
(***************************************************************************)
T_anxiety == <<97, 110, 120, 105, 101, 116, 121>>

T_depression == <<100, 101, 112, 114, 101, 115, 115, 105, 111, 110>>

T_back == <<98, 97, 99, 107>>

T_spine == <<115, 112, 105, 110, 101>>

T_lumbar == <<108, 117, 109, 98, 97, 114>>

T_knee == <<107, 110, 101, 101>>

T_leg == <<108, 101, 103>>

T_hip == <<104, 105, 112>>

T_shoulder == <<115, 104, 111, 117, 108, 100, 101, 114>>

T_arm == <<97, 114, 109>>

T_hand == <<104, 97, 110, 100>>

T_neck == <<110, 101, 99, 107>>

T_cervical == <<99, 101, 114, 118, 105, 99, 97, 108>>

\* the limitation labels, as texts
T_concentration == <<99, 111, 110, 99, 101, 110, 116, 114, 97, 116, 105, 111, 110>>

T_memory == <<109, 101, 109, 111, 114, 121>>

T_social_interaction == <<115, 111, 99, 105, 97, 108, 95, 105, 110, 116, 101, 114, 97, 99, 116, 105, 111, 110>>

T_decision_making == <<100, 101, 99, 105, 115, 105, 111, 110, 95, 109, 97, 107, 105, 110, 103>>

T_mobility == <<109, 111, 98, 105, 108, 105, 116, 121>>

T_lifting == <<108, 105, 102, 116, 105, 110, 103>>

T_prolonged_sitting == <<112, 114, 111, 108, 111, 110, 103, 101, 100, 95, 115, 105, 116, 116, 105, 110, 103>>

T_bending == <<98, 101, 110, 100, 105, 110, 103>>

T_walking == <<119, 97, 108, 107, 105, 110, 103>>

T_standing == <<115, 116, 97, 110, 100, 105, 110, 103>>

T_climbing == <<99, 108, 105, 109, 98, 105, 110, 103>>

T_running == <<114, 117, 110, 110, 105, 110, 103>>

T_reaching == <<114, 101, 97, 99, 104, 105, 110, 103>>

T_grasping == <<103, 114, 97, 115, 112, 105, 110, 103>>

T_fine_motor == <<102, 105, 110, 101, 95, 109, 111, 116, 111, 114>>

T_neck_movement == <<110, 101, 99, 107, 95, 109, 111, 118, 101, 109, 101, 110, 116>>

T_headaches == <<104, 101, 97, 100, 97, 99, 104, 101, 115>>

\* the terms of a category of conditions and the limitations it brings, in
\* the order of the elif chain of _assess_functional_limitations
LimitationCategories ==
    <<[terms |-> {T_mental, T_ptsd, T_anxiety, T_depression},
       limitations |-> {T_concentration, T_memory, T_social_interaction, T_decision_making}],
      [terms |-> {T_back, T_spine, T_lumbar},
       limitations |-> {T_mobility, T_lifting, T_prolonged_sitting, T_bending}],
      [terms |-> {T_knee, T_leg, T_hip},
       limitations |-> {T_walking, T_standing, T_climbing, T_running}],
      [terms |-> {T_shoulder, T_arm, T_hand},
       limitations |-> {T_reaching, T_grasping, T_lifting, T_fine_motor}],
      [terms |-> {T_neck, T_cervical},
       limitations |-> {T_neck_movement, T_concentration, T_headaches}]>>

\* the loop body of _assess_functional_limitations for one entry: an entry
\* that is not found is skipped; the name of a found entry is lower-cased
\* before its rating is looked at, which raises for a name that is no str;
\* an entry rated 50 or more brings the limitations of the first category
\* one of whose terms its lower-cased name contains
ConditionLimitations(condition) ==
    IF ~Get(condition, "tod_found", FALSE) THEN Returns({})
    ELSE IF Get(condition, "condition", PyStr(<<>>)).type # "str"
    THEN Raises("AttributeError")
    ELSE IF Get(condition, "rating", 0) < 50 THEN Returns({})
    ELSE LET name == Lower(Get(condition, "condition", PyStr(<<>>)).val)
             hits == {k \in 1..Len(LimitationCategories) :
                         \E t \in LimitationCategories[k].terms : Contains(name, t)}
         IN IF hits = {} THEN Returns({})
            ELSE Returns(LimitationCategories[CHOOSE k \in hits :
                                                  \A j \in hits : k <= j].limitations)

\* the loop over the conditions, limitations.update(...) on the set so far;
\* an exception ends it
RECURSIVE CollectLimitations(_, _)
CollectLimitations(conditions, limitations) ==
    IF conditions = <<>> THEN Returns(limitations)
    ELSE Let(ConditionLimitations(Head(conditions)), LAMBDA found :
             IF found.raised # "" THEN found
             ELSE CollectLimitations(Tail(conditions), limitations \cup found.value))

\* sorted(list(limitations)): the texts of a set in the order of str
RECURSIVE SortedList(_)
SortedList(texts) ==
    IF texts = {} THEN <<>>
    ELSE Let(CHOOSE t \in texts : \A u \in texts : StrLE(t, u), LAMBDA least :
             <<least>> \o SortedList(texts \ {least}))

\* _assess_functional_limitations(conditions)
AssessFunctionalLimitations(conditions) ==
    Let(CollectLimitations(conditions, {}), LAMBDA limitations :
        IF limitations.raised # "" THEN limitations
        ELSE Returns(SortedList(limitations.value)))

\* base_recommendations, the dict literal of _generate_qol_recommendations
BaseRecommendations ==
    [mild |-> <<"Regular medical follow-up recommended",
         "Monitor condition progression",
         "Consider preventive care measures">>,
     moderate |-> <<"Regular medical care and monitoring required",
         "Consider rehabilitation services",
         "Workplace accommodations may be beneficial",
         "Assess need for assistive devices">>,
     moderate_to_severe |-> <<"Comprehensive medical care required",
         "Rehabilitation and support services recommended",
         "Significant workplace accommodations needed",
         "Consider vocational retraining options",
         "Family support services may be helpful">>,
     severe |-> <<"Intensive medical care and support required",
         "Comprehensive rehabilitation program recommended",
         "Full disability accommodations needed",
         "Consider long-term care planning",
         "Family and caregiver support essential">>]

\* the recommendations _generate_qol_recommendations appends for the
\* limitations, a list of texts: `"mobility" in limitations` is a test on
\* the items, `"mental" in str(limitations).lower()` a test on the
\* lower-cased repr of the list
ExtraRecommendations(limitations) ==
    LET has(l) == \E n \in 1..Len(limitations) : limitations[n] = l
    IN (IF has(T_mobility)
        THEN <<"Assess need for mobility aids and home modifications">> ELSE <<>>)
       \o (IF \/ Contains(Lower(Format(PyList(limitations))), T_mental)
              \/ has(T_concentration)
           THEN <<"Consider mental health support services">> ELSE <<>>)
       \o (IF Len(limitations) > 3
           THEN <<"Comprehensive occupational therapy assessment recommended">>
           ELSE <<>>)

\* _generate_qol_recommendations(impact_level, limitations), run on its own:
\* the list of the level, or the [] of .get for a level the literal lacks,
\* with the recommendations for the limitations appended
GenerateQolRecommendations(impact_level, limitations) ==
    Get(BaseRecommendations, impact_level, <<>>) \o ExtraRecommendations(limitations)

\* _assess_quality_of_life: the sum of the ratings of the found conditions
RECURSIVE SumFoundRatings(_)
SumFoundRatings(conditions) ==
    IF conditions = <<>> THEN 0
    ELSE (IF Head(conditions).tod_found THEN Head(conditions).rating ELSE 0)
         + SumFoundRatings(Tail(conditions))

ImpactLevel(total_rating) ==
    IF total_rating >= 75 THEN "severe"
    ELSE IF total_rating >= 50 THEN "moderate_to_severe"
    ELSE IF total_rating >= 25 THEN "moderate"
    ELSE "mild"

\* any("mental" in name.lower() or "ptsd" in name.lower()) over the entries,
\* left to right; lower() of a condition name that is None raises
RECURSIVE MentalHealthPresent(_)
MentalHealthPresent(conditions) ==
    IF conditions = <<>> THEN Returns(FALSE)
    ELSE IF Head(conditions).condition.type # "str" THEN Raises("AttributeError")
    ELSE IF \/ Contains(Lower(Head(conditions).condition.val), T_mental)
            \/ Contains(Lower(Head(conditions).condition.val), T_ptsd)
         THEN Returns(TRUE)
    ELSE MentalHealthPresent(Tail(conditions))

\* the dict _assess_quality_of_life returns, from its local variables; the
\* any() of mental_health_present raises on a name that is no str
QualityOfLifeResult(conditions, impact_level, functional_limitations, recommendations) ==
    Let(MentalHealthPresent(conditions), LAMBDA mental :
        IF mental.raised # "" THEN Raises(mental.raised)
        ELSE Returns([impact_level           |-> impact_level,
                      total_rating           |-> SumFoundRatings(conditions),
                      condition_count        |-> Len(SelectSeq(conditions, LAMBDA c : c.tod_found)),
                      functional_limitations |-> functional_limitations,
                      recommendations        |-> recommendations,
                      assessment_factors     |->
                          [multiple_conditions |->
                               Len(SelectSeq(conditions, LAMBDA c : c.tod_found)) > 1,
                           high_individual_ratings |->
                               \E n \in 1..Len(conditions) : conditions[n].rating >= 50,
                           mental_health_present |-> mental.value]]))

\* _assess_quality_of_life(conditions): the impact level, then the call of
\* _assess_functional_limitations, whose exception leaves the function, then
\* the recommendations and the result
AssessQualityOfLife(conditions) ==
    Let(ImpactLevel(SumFoundRatings(conditions)), LAMBDA impact_level :
    Let(AssessFunctionalLimitations(conditions), LAMBDA functional_limitations :
        IF functional_limitations.raised # "" THEN Raises(functional_limitations.raised)
        ELSE QualityOfLifeResult(conditions, impact_level, functional_limitations.value,
                                 GenerateQolRecommendations(impact_level,
                                                            functional_limitations.value))))

\* assess_case(case_data): an exception of a step is raised to the caller
AssessCase(idx, case_data) ==
    Let(AssessAll(idx, case_data.conditions, case_data.medical_evidence),
        LAMBDA assessed_conditions :
    Let(CalculateCombinedRating(assessed_conditions, case_data.pre_existing),
        LAMBDA combined_rating :
    Let(AssessQualityOfLife(assessed_conditions), LAMBDA qol_impact :
        IF qol_impact.raised # "" THEN Raises(qol_impact.raised)
        ELSE Returns(
            [total_disability_rating   |-> combined_rating.total_rating,
             individual_conditions     |-> assessed_conditions,
             combined_rating_breakdown |-> combined_rating,
             quality_of_life_impact    |-> qol_impact.value,
             assessment_confidence     |-> Get(combined_rating, "confidence", "medium")]))))

\* calculate_rating(rating_data): no medical evidence
CalculateRating(idx, rating_data) ==
    Let(AssessAll(idx, rating_data.conditions, <<>>), LAMBDA assessed_conditions :
    Let(CalculateCombinedRating(assessed_conditions, rating_data.pre_existing),
        LAMBDA combined_rating :
            [total_rating        |-> combined_rating.total_rating,
             conditions          |-> assessed_conditions,
             method              |-> combined_rating.method,
             pct_applied         |-> Get(combined_rating, "pct_applied", FALSE),
             calculation_details |-> Get(combined_rating, "calculation_details", <<>>),
             confidence          |-> Get(combined_rating, "confidence", "medium")]))

(***************************************************************************)
(* The inputs the operations are called with                               *)
(***************************************************************************)
\* the longest list of assessed conditions handed to _calculate_combined_rating
MaxConditions == 3

\* the longest conditions list of a case
MaxCaseLen == 2

RECURSIVE SeqsUpTo(_, _)
SeqsUpTo(S, n) ==
    IF n = 0 THEN {<<>>}
    ELSE LET shorter == SeqsUpTo(S, n - 1)
         IN shorter \cup {Append(s, x) : s \in shorter, x \in S}

Condition(id, name, keywords, symptoms) ==
    [id |-> id, name |-> name, chapter |-> "ch1", description |-> <<>>,
     keywords |-> keywords, symptoms |-> symptoms]

\* The engine's datasets: none; and two conditions, "Ab" (symptom "bb") and
\* "ba " (keyword "a a")
EngineDatasets ==
    {<<>>,
     <<Condition("c1", <<65, 98>>, <<>>, << <<98, 98>> >>),
       Condition("c2", <<98, 97, 32>>, << <<97, 32, 97>> >>, <<>>)>>}

\* n symptoms "aa"
Symptoms(n) == PyList([i \in 1..n |-> <<97, 97>>])

CaseCondition(name, severity, symptoms) ==
    [name |-> name, severity |-> severity, symptoms |-> symptoms]

\* The conditions of the cases: names "ab", "AB " (both "Ab" once normalized),
\* "ba", "abz" (close to "ab"), "zz" (close to nothing), None; severities
\* "moderate", "Severe", "total", "minimal", "mild", "bogus", None; symptom
\* lists of 0, 1, 3, 4 and 10 items, the text "aa" in place of a list, and
\* None.
CaseConditions ==
    {CaseCondition(PyStr(<<97, 98>>), PyStr(T_moderate), Symptoms(4)),
     CaseCondition(PyStr(<<65, 66, 32>>), PyStr(<<83, 101, 118, 101, 114, 101>>), Symptoms(3)),
     CaseCondition(PyStr(<<97, 98>>), PyStr(T_total), Symptoms(10)),
     CaseCondition(PyStr(<<98, 97>>), PyStr(T_minimal), Symptoms(0)),
     CaseCondition(PyStr(<<97, 98>>), PyStr(T_mild), Symptoms(0)),
     CaseCondition(PyStr(<<97, 98, 122>>), PyStr(<<98, 111, 103, 117, 115>>), Symptoms(1)),
     CaseCondition(PyStr(<<122, 122>>), PyStr(T_total), Symptoms(0)),
     CaseCondition(PyNone, PyStr(T_severe), Symptoms(0)),
     CaseCondition(PyStr(<<97, 98>>), PyNone, Symptoms(0)),
     CaseCondition(PyStr(<<97, 98>>), PyStr(T_severe), PyNone),
     CaseCondition(PyStr(<<97, 98>>), PyStr(T_moderate), PyStr(<<97, 97>>))}

Evidence(content) == [content |-> content, source |-> <<>>]

\* evidence lists: none; "x AB y" and "zz"; one whose content is None
EvidenceLists ==
    {<<>>,
     <<Evidence(PyStr(<<120, 32, 65, 66, 32, 121>>)), Evidence(PyStr(<<122, 122>>))>>,
     <<Evidence(PyNone)>>}

PreExistingLists ==
    {<<>>, <<CaseCondition(PyStr(<<97, 98>>), PyStr(T_mild), Symptoms(0))>>}

Cases ==
    {[conditions |-> cs, pre_existing |-> pre, medical_evidence |-> ev] :
        cs \in SeqsUpTo(CaseConditions, MaxCaseLen),
        pre \in PreExistingLists, ev \in EvidenceLists}

RatingData ==
    {[conditions |-> cs, pre_existing |-> pre] :
        cs \in SeqsUpTo(CaseConditions, MaxCaseLen), pre \in PreExistingLists}

\* the ratings of the assessed conditions handed to _calculate_combined_rating
Ratings == {0, 5, 10, 30, 50, 98, 100}

Assessed(tod_found, rating) == [tod_found |-> tod_found, rating |-> rating]

AssessedLists ==
    SeqsUpTo({Assessed(f, r) : f \in BOOLEAN, r \in Ratings}, MaxConditions)

\* the severities and symptom lists calculate_basic_rating is called with:
\* the seven labels, "Severe", "total " (not trimmed), "bogus", "", None
Severities ==
    {PyStr(T_minimal), PyStr(T_mild), PyStr(T_moderate), PyStr(T_moderately_severe),
     PyStr(T_severe), PyStr(T_very_severe), PyStr(T_total),
     PyStr(<<83, 101, 118, 101, 114, 101>>), PyStr(<<116, 111, 116, 97, 108, 32>>),
     PyStr(<<98, 111, 103, 117, 115>>), PyStr(<<>>), PyNone}

\* lists of 0 to 11 symptoms, None, and a text in place of the list: "aa"
\* and the twelve characters of "aa, aa, aaaa"
SymptomLists ==
    {Symptoms(0), Symptoms(1), Symptoms(4), Symptoms(10), Symptoms(11), PyNone,
     PyStr(<<97, 97>>), PyStr(<<97, 97, 44, 32, 97, 97, 44, 32, 97, 97, 97, 97>>)}

\* "ab", "AB ", "abz", "zz", "", None, and the lists [] and ["ab"]
Names == {PyStr(<<97, 98>>), PyStr(<<65, 66, 32>>), PyStr(<<97, 98, 122>>),
          PyStr(<<122, 122>>), PyStr(<<>>), PyNone,
          PyList(<<>>), PyList(<< <<97, 98>> >>)}

\* the longest evidence list handed to _evaluate_medical_evidence
MaxEvidence == 3

\* snippets "x AB y", "ab", "zz" and one whose content is None
Snippets ==
    {Evidence(PyStr(<<120, 32, 65, 66, 32, 121>>)), Evidence(PyStr(<<97, 98>>)),
     Evidence(PyStr(<<122, 122>>)), Evidence(PyNone)}

SnippetLists == SeqsUpTo(Snippets, MaxEvidence)

\* "ab", "Ab", "b y", and names that are no str: None and the list ["ab"]
EvidenceNames == {PyStr(<<97, 98>>), PyStr(<<65, 98>>), PyStr(<<98, 32, 121>>),
                  PyNone, PyList(<< <<97, 98>> >>)}

(***************************************************************************)
(* What a call writes in place.  The object a statement such as            *)
(* x[key] = value or x.append(value) acts on is either an object the call  *)
(* has made itself (a literal, a comprehension, dict(), sorted()) or an    *)
(* entry of one of the maps of the store.                                  *)
(***************************************************************************)
\* an object made by the running call
Fresh == [owner |-> "call"]

\* the i-th entry of a map of the store
Stored(map, i) == [owner |-> "store", map |-> map, i |-> i]

\* DictCopy that hands back the dict it was given
DictCopy_sameObject(x) == x

\* dict(x), {**x, ...}: a new dict with the items of x
DictCopy(x) == Fresh

\* target[key] = value
SetItem(target, key, value) == [target |-> target, key |-> key, value |-> value]

\* target.append(value), .extend(...), .update(...), .sort(...)
Appended(target) == [target |-> target, key |-> "append", value |-> <<>>]

\* an operation without in-place statement
NoWrites == <<>>

\* the store after one in-place statement: only a write to an entry of the
\* store changes it
AfterWrite(st, w) ==
    IF w.target.owner = "call" THEN st
    ELSE [st EXCEPT ![w.target.map][w.target.i] =
             [f \in DOMAIN @ \cup {w.key} |-> IF f = w.key THEN w.value ELSE @[f]]]

RECURSIVE AfterWrites(_, _)
AfterWrites(st, writes) ==
    IF writes = <<>> THEN st
    ELSE AfterWrites(AfterWrite(st, Head(writes)), Tail(writes))

\* the in-place statements of _assess_condition and what it calls: all act
\* on lists made in the same function (criteria_met, matching_symptoms,
\* relevant_evidence)
WritesOfAssessCondition ==
    <<Appended(Fresh), Appended(Fresh), Appended(Fresh)>>

\* the in-place statements of calculate_rating: assessed_conditions.append
\* on the list made at its start and, when ratings are combined, steps.append
\* in _get_combination_steps
WritesOfCalculateRating(rating_data) ==
    [i \in 1..Len(rating_data.conditions) |-> Appended(Fresh)]
        \o (IF rating_data.conditions = <<>> THEN <<>> ELSE WritesOfAssessCondition)
        \o <<Appended(Fresh)>>

\* the in-place statements of assess_case: those of calculate_rating, then
\* limitations.update on the set made by _assess_functional_limitations,
\* recommendations.append on a list of the base_recommendations literal (or
\* on the [] of .get) and recommendations.extend / .append on the list made
\* by _generate_recommendations
WritesOfAssessCase(case_data) ==
    WritesOfCalculateRating(case_data)
        \o <<Appended(Fresh), Appended(Fresh), Appended(Fresh)>>

(***************************************************************************)
(* The engine: one call at a time, from idle to done and back              *)
(***************************************************************************)
Init ==
    /\ store \in {BuildStore(d) : d \in EngineDatasets}
    /\ pc = "idle"
    /\ op = "none"
    /\ arg = <<>>
    /\ res = <<>>
    /\ calls = <<>>
    /\ heap = <<>>
    /\ returned = <<>>

\* the call name(a) runs to its end with the result r, having made the
\* writes
Call(name, a, r, writes) ==
    /\ pc' = "done"
    /\ op' = name
    /\ arg' = a
    /\ res' = r
    /\ store' = AfterWrites(store, writes)
    /\ UNCHANGED <<calls, heap, returned>>

CallCalculateCombinedRating ==
    /\ pc = "idle"
    /\ \E conditions \in AssessedLists, pre_existing \in PreExistingLists :
           Call("_calculate_combined_rating",
                [conditions |-> conditions, pre_existing |-> pre_existing],
                CalculateCombinedRating(conditions, pre_existing),
                <<Appended(Fresh)>>)

\* calculate_basic_rating and find_condition have no in-place statement
CallCalculateBasicRating ==
    /\ pc = "idle"
    /\ \E name \in Names, severity \in Severities, symptoms \in SymptomLists :
           Call("calculate_basic_rating",
                [condition_name |-> name, severity |-> severity, symptoms |-> symptoms],
                CalculateBasicRating(store.search_index, name, severity, symptoms),
                NoWrites)

CallAssessCase ==
    /\ pc = "idle"
    /\ \E case_data \in Cases :
           Call("assess_case", case_data, AssessCase(store.search_index, case_data),
                WritesOfAssessCase(case_data))

CallCalculateRating ==
    /\ pc = "idle"
    /\ \E rating_data \in RatingData :
           Call("calculate_rating", rating_data,
                CalculateRating(store.search_index, rating_data),
                WritesOfCalculateRating(rating_data))

CallEvaluateMedicalEvidence ==
    /\ pc = "idle"
    /\ \E name \in EvidenceNames, medical_evidence \in SnippetLists :
           Call("_evaluate_medical_evidence",
                [condition_name |-> name, medical_evidence |-> medical_evidence],
                EvaluateMedicalEvidence(name, medical_evidence),
                <<Appended(Fresh)>>)

Return ==
    /\ pc = "done"
    /\ pc' = "idle"
    /\ op' = "none"
    /\ arg' = <<>>
    /\ res' = <<>>
    /\ UNCHANGED <<store, calls, heap, returned>>

Next ==
    \/ CallCalculateCombinedRating
    \/ CallCalculateBasicRating
    \/ CallAssessCase
    \/ CallCalculateRating
    \/ CallEvaluateMedicalEvidence
    \/ Return

Spec == Init /\ [][Next]_vars

(***************************************************************************)
(* The resolver alone: find_condition over many stores, queries and        *)
(* thresholds                                                              *)
(***************************************************************************)
\* the longest query and the longest condition name
MaxQueryLen == 3

MaxNameLen == 2

\* queries are written with " ", "A" and "b"; names with " ", "A", "a", "b"
QueryAlphabet == {32, 65, 98}

NameAlphabet == {32, 65, 97, 98}

\* the second condition of a store: no name and no term; name " b" with
\* keyword " a"; name "Ab" with keyword "b"
SecondConditions ==
    {Condition("c2", <<>>, <<>>, <<>>),
     Condition("c2", <<32, 98>>, << <<32, 97>> >>, <<>>),
     Condition("c2", <<65, 98>>, << <<98>> >>, <<>>)}

\* the empty store, and the stores of two conditions
FindDatasets ==
    {<<>>} \cup
    {<<Condition("c1", n, <<>>, <<>>), c2>> :
        n \in SeqsUpTo(NameAlphabet, MaxNameLen), c2 \in SecondConditions}

Queries == {PyStr(q) : q \in SeqsUpTo(QueryAlphabet, MaxQueryLen)} \cup {PyNone}

\* no bar at all, a low bar, the default, and a bar no score reaches
Thresholds == {0, 40, DefaultThreshold, 101}

InitFind ==
    /\ store \in {BuildStore(d) : d \in FindDatasets}
    /\ pc = "idle"
    /\ op = "none"
    /\ arg = <<>>
    /\ res = <<>>
    /\ calls = <<>>
    /\ heap = <<>>
    /\ returned = <<>>

CallFindCondition ==
    /\ pc = "idle"
    /\ \E name \in Queries, threshold \in Thresholds :
           Call("find_condition",
                [condition_name |-> name, threshold |-> threshold],
                FindCondition(store.search_index, name, threshold),
                NoWrites)

NextFind ==
    \/ CallFindCondition
    \/ Return

SpecFind == InitFind /\ [][NextFind]_vars

(***************************************************************************)
(* The combination rule as the specification words it                      *)
(***************************************************************************)
\* a call that returns a combined rating has ended and did not raise
Combined ==
    /\ pc = "done"
    /\ op \in {"_calculate_combined_rating", "assess_case", "calculate_rating"}
    /\ (op = "assess_case" => res.raised = "")

\* the combined rating the call returned
TotalReturned ==
    IF op = "assess_case" THEN res.value.total_disability_rating ELSE res.total_rating

\* the combination result the call returned
Breakdown == IF op = "assess_case" THEN res.value.combined_rating_breakdown ELSE res

\* the per-condition entries that were combined
Entries ==
    IF op = "assess_case" THEN res.value.individual_conditions
    ELSE IF op = "calculate_rating" THEN res.conditions
    ELSE arg.conditions

\* the ratings of the resolved entries, in input order
RECURSIVE ResolvedRatingsOf(_)
ResolvedRatingsOf(entries) ==
    IF entries = <<>> THEN <<>>
    ELSE (IF Head(entries).tod_found THEN <<Head(entries).rating>> ELSE <<>>)
         \o ResolvedRatingsOf(Tail(entries))

ResolvedRatings == ResolvedRatingsOf(Entries)

\* c after the ratings r2..rN, as the integer c * scale: c := c + r - c*r/100
RECURSIVE RuleFold(_, _, _)
RuleFold(c, scale, rest) ==
    IF rest = <<>> THEN <<c, scale>>
    ELSE RuleFold(100 * c + 100 * scale * Head(rest) - c * Head(rest),
                  100 * scale, Tail(rest))

\* round(c) of the rule, then min(100, .)
RuleCombined(ratings) ==
    LET f == RuleFold(ratings[1], 1, Tail(ratings))
    IN Min2(100, RoundHalfEven(f[1], f[2]))

\* C1: the combined rating that _calculate_combined_rating, assess_case and
\* calculate_rating return is an integer from 0 to 100, whatever the number
\* and the order of the conditions.
C1_CombinedRatingInRange == Combined => TotalReturned \in 0..100

\* C1: three resolved conditions whose ratings add up to more than 100
C1_Witness ==
    /\ Combined
    /\ Len(ResolvedRatings) = 3
    /\ ResolvedRatings[1] + ResolvedRatings[2] + ResolvedRatings[3] > 100
    /\ TotalReturned < 100

\* C2: a list of resolved ratings followed by one more rating r > 0 combines
\* to at least what the list alone combines to, after the final rounding.
C2_AppendNeverDecreases ==
    (pc = "done" /\ op = "_calculate_combined_rating"
        /\ Len(arg.conditions) < MaxConditions)
    => \A r \in Ratings \ {0} :
           CalculateCombinedRating(Append(arg.conditions, Assessed(TRUE, r)),
                                   arg.pre_existing).total_rating
               >= res.total_rating

\* C2: two resolved ratings below 100 in all, and a third that raises the total
C2_Witness ==
    /\ pc = "done" /\ op = "_calculate_combined_rating"
    /\ Len(arg.conditions) < MaxConditions
    /\ Len(ResolvedRatings) = 2
    /\ \E r \in Ratings \ {0} :
           CalculateCombinedRating(Append(arg.conditions, Assessed(TRUE, r)),
                                   arg.pre_existing).total_rating
               > res.total_rating

\* C3: several resolved ratings combine to min(100, round(c)), c starting at
\* the first rating and updated in input order by c := c + r - c*r/100, rounded
\* once at the end; the method is "vac_combination_formula" and, without
\* pre-existing conditions, the confidence "medium"; [30, 50] combines to 65.
C3_CombinationRule ==
    (Combined /\ Len(ResolvedRatings) > 1)
    => /\ TotalReturned = RuleCombined(ResolvedRatings)
       /\ Breakdown.method = "vac_combination_formula"
       /\ (arg.pre_existing = <<>> => Breakdown.confidence = "medium")
       /\ (ResolvedRatings = <<30, 50>> => TotalReturned = 65)

\* C3: the ratings [30, 50] were combined
C3_Witness ==
    /\ Combined
    /\ ResolvedRatings = <<30, 50>>
    /\ arg.pre_existing = <<>>
    /\ TotalReturned = 65

\* C4 as claimed: with no rating to combine the result is 0 with method
\* "no_valid_conditions", also for a case without conditions.
C4_EmptyIsNoValidConditions ==
    (Combined /\ ResolvedRatings = <<>>)
    => /\ TotalReturned = 0
       /\ Breakdown.method = "no_valid_conditions"

\* C4 as amended: with no rating to combine the result is 0; the method is
\* "no_conditions" for a case without conditions and "no_valid_conditions" for
\* a case none of whose conditions resolved.
C4_EmptyMethods ==
    (Combined /\ ResolvedRatings = <<>>)
    => /\ TotalReturned = 0
       /\ Breakdown.method =
              IF Entries = <<>> THEN "no_conditions" ELSE "no_valid_conditions"

\* C4: a case with conditions, none of which resolved though one has a rating
C4_Witness ==
    /\ Combined
    /\ Len(Entries) >= 2
    /\ ResolvedRatings = <<>>
    /\ \E i \in 1..Len(Entries) : Entries[i].rating > 0
    /\ Breakdown.method = "no_valid_conditions"

\* C5: when exactly one condition resolves, with rating R, the combined rating
\* is R itself, the method "single_condition" and, without pre-existing
\* conditions, the confidence "high", however many conditions did not resolve.
C5_SingleCondition ==
    (Combined /\ Len(ResolvedRatings) = 1)
    => /\ TotalReturned = ResolvedRatings[1]
       /\ Breakdown.method = "single_condition"
       /\ (arg.pre_existing = <<>> => Breakdown.confidence = "high")

\* C5: one resolved condition among unresolved ones, no pre-existing condition
C5_Witness ==
    /\ Combined
    /\ Len(Entries) >= 2
    /\ Len(ResolvedRatings) = 1
    /\ ResolvedRatings[1] > 0
    /\ arg.pre_existing = <<>>
    /\ Breakdown.confidence = "high"

(***************************************************************************)
(* The per-condition results                                               *)
(***************************************************************************)
\* assess_case or calculate_rating has ended and did not raise
Assessing ==
    /\ pc = "done"
    /\ op \in {"assess_case", "calculate_rating"}
    /\ (op = "assess_case" => res.raised = "")

\* C6: every per-condition entry of assess_case and calculate_rating has a
\* rating from 0 to 100, and an entry whose condition did not resolve has
\* rating 0.
C6_EntryRatings ==
    Assessing
    => \A i \in 1..Len(Entries) :
           /\ Entries[i].rating \in 0..100
           /\ (~Entries[i].tod_found => Entries[i].rating = 0)

\* C6: a resolved entry capped at 100 beside an entry of the failure path
C6_Witness ==
    /\ Assessing
    /\ \E i \in 1..Len(Entries) :
           /\ Entries[i].tod_found
           /\ Entries[i].rating = 100
           /\ Entries[i].base_rating + Entries[i].symptom_adjustment > 100
    /\ \E i \in 1..Len(Entries) : "error" \in DOMAIN Entries[i]

\* the base rating of a lower-cased severity label, as the specification
\* lists it
BaseOfLabel(label) ==
    IF label = T_minimal THEN 5
    ELSE IF label = T_mild THEN 10
    ELSE IF label = T_moderate THEN 30
    ELSE IF label = T_moderately_severe THEN 50
    ELSE IF label = T_severe THEN 70
    ELSE IF label = T_very_severe THEN 90
    ELSE IF label = T_total THEN 100
    ELSE 20

Rated ==
    /\ pc = "done" /\ op = "calculate_basic_rating"
    /\ res.raised = ""
    /\ res.value.found

\* the number of symptoms supplied: the items of a list; a text given in
\* place of the list is one symptom, or none when it is empty
NumberOfSymptoms(symptoms) ==
    IF symptoms.type = "list" THEN Len(symptoms.val)
    ELSE IF symptoms.val = <<>> THEN 0 ELSE 1

\* C7: for a condition that resolves, calculate_basic_rating returns
\* min(base + adjustment, 100), base from the lower-cased severity label (20
\* for an unknown one) and adjustment = min(2 * number of symptoms, 20); the
\* base_rating and symptom_adjustment fields are base and adjustment.
C7_BasicRating ==
    Rated
    => LET base == BaseOfLabel(Lower(arg.severity.val))
           adjustment == Min2(2 * NumberOfSymptoms(arg.symptoms), 20)
       IN /\ res.value.rating = Min2(base + adjustment, 100)
          /\ res.value.base_rating = base
          /\ res.value.symptom_adjustment = adjustment

\* the statement of C7 for the calls that supply a list of symptoms
BasicRatingOfList ==
    (Rated /\ arg.symptoms.type = "list") => C7_BasicRating

\* severity "total" with a list of 10 symptoms rates 100
ClampedRating ==
    /\ Rated
    /\ arg.severity.val = T_total
    /\ arg.symptoms.type = "list"
    /\ Len(arg.symptoms.val) = 10
    /\ res.value.rating = 100

\* a result without rating values whose rationale holds the caller's name
NotFoundShape(result, name) ==
    /\ result.rating = 0
    /\ "rationale" \in DOMAIN result
    /\ Contains(result.rationale, Format(name))
    /\ "base_rating" \notin DOMAIN result
    /\ "symptom_adjustment" \notin DOMAIN result

NotRated ==
    /\ pc = "done" /\ op = "calculate_basic_rating"
    /\ res.raised = ""
    /\ ~res.value.found

\* C8 as claimed: every result for a condition that did not resolve
\* (calculate_basic_rating with found false, every entry with tod_found false)
\* has rating 0, a rationale that contains the caller's condition name, and
\* no base_rating or symptom_adjustment.
C8_UnresolvedHasRationale ==
    /\ NotRated => NotFoundShape(res.value, arg.condition_name)
    /\ Assessing
       => \A i \in 1..Len(Entries) :
              ~Entries[i].tod_found
              => NotFoundShape(Entries[i], arg.conditions[i].name)

\* C8 as amended: a result for a condition that was not found has rating 0, a
\* rationale that contains the caller's condition name, and no base_rating or
\* symptom_adjustment; the entry of a condition whose assessment failed has
\* rating 0 and no base_rating or symptom_adjustment, and holds the error
\* instead of a rationale.
C8_NotFoundHasRationale ==
    /\ NotRated => NotFoundShape(res.value, arg.condition_name)
    /\ Assessing
       => \A i \in 1..Len(Entries) :
              ~Entries[i].tod_found
              => IF "error" \in DOMAIN Entries[i]
                 THEN /\ Entries[i].rating = 0
                      /\ "rationale" \notin DOMAIN Entries[i]
                      /\ "base_rating" \notin DOMAIN Entries[i]
                      /\ "symptom_adjustment" \notin DOMAIN Entries[i]
                 ELSE NotFoundShape(Entries[i], arg.conditions[i].name)

\* C8: a condition with a name that was not found, beside one that failed
C8_Witness ==
    /\ Assessing
    /\ \E i \in 1..Len(Entries) :
           /\ ~Entries[i].tod_found
           /\ "rationale" \in DOMAIN Entries[i]
           /\ arg.conditions[i].name.type = "str"
           /\ arg.conditions[i].name.val # <<>>
    /\ \E i \in 1..Len(Entries) : "error" \in DOMAIN Entries[i]

(***************************************************************************)
(* The resolver                                                            *)
(***************************************************************************)
\* find_condition has ended on a query whose normalized form is not empty
Resolved ==
    /\ pc = "done" /\ op = "find_condition"
    /\ arg.condition_name.type = "str"
    /\ Strip(Lower(arg.condition_name.val)) # <<>>

Query == Strip(Lower(arg.condition_name.val))

\* the non-empty indexed terms of the i-th condition of the store
TermsOf(i) ==
    {store.search_index[i].search_terms[k] :
        k \in 1..Len(store.search_index[i].search_terms)} \ {<<>>}

\* some indexed term is the query
ExactTermExists == \E i \in 1..Len(store.search_index) : Query \in TermsOf(i)

\* C9: a query whose lower-cased, trimmed form is not empty and is an indexed
\* term of some condition resolves to a condition that has that term, at every
\* threshold and whatever the conditions scanned before it score.
C9_ExactMatchWins ==
    (Resolved /\ ExactTermExists)
    => /\ res.raised = ""
       /\ res.value # <<>>
       /\ \E i \in 1..Len(store.search_index) :
              /\ store.search_index[i].condition = res.value[1]
              /\ Query \in TermsOf(i)

\* C9: the bar is above every score, the first condition scores 100 on a
\* term that is not the query, and the second condition has the query
C9_Witness ==
    /\ Resolved
    /\ arg.threshold > 100
    /\ Len(store.search_index) = 2
    /\ Query \notin TermsOf(1)
    /\ \E t \in TermsOf(1) : TermScore(Query, t) = 100
    /\ Query \in TermsOf(2)
    /\ res.value # <<>>

\* the best score: the largest term score over all conditions and all their
\* non-empty indexed terms
BestScore ==
    SetMax({TermScore(Query, t) : t \in UNION {TermsOf(i) : i \in 1..Len(store.search_index)}})

\* the first condition in scan order with a term that attains the best score
FirstBest ==
    LET i == CHOOSE j \in 1..Len(store.search_index) :
                 /\ \E t \in TermsOf(j) : TermScore(Query, t) = BestScore
                 /\ \A k \in 1..(j - 1) : \A t \in TermsOf(k) : TermScore(Query, t) # BestScore
    IN store.search_index[i].condition

\* C10 as claimed: when no indexed term is the query, find_condition returns a
\* condition exactly when the best score is at least the threshold, and then
\* the first condition in scan order whose terms attain it; otherwise none.
C10_BestScoreDecides ==
    (Resolved /\ ~ExactTermExists
        /\ \E i \in 1..Len(store.search_index) : TermsOf(i) # {})
    => IF BestScore >= arg.threshold
       THEN res.raised = "" /\ res.value = <<FirstBest>>
       ELSE res.raised = "" /\ res.value = <<>>

(***************************************************************************)
(* The case assessment                                                     *)
(***************************************************************************)
\* a condition of the input whose assessment cannot succeed: a name that is
\* None, or a severity or symptom list of the wrong shape
Unassessable(condition) ==
    \/ condition.name.type # "str"
    \/ condition.severity.type # "str"
    \/ condition.symptoms.type # "list"

\* C13 as claimed: whatever goes wrong while assessing one condition,
\* assess_case returns an assessment with one entry per input condition, in
\* input order, the failed condition being an entry with rating 0 and
\* tod_found false.
C13_NoConditionAbortsCase ==
    (pc = "done" /\ op = "assess_case")
    => /\ res.raised = ""
       /\ Len(res.value.individual_conditions) = Len(arg.conditions)
       /\ \A i \in 1..Len(arg.conditions) :
              /\ res.value.individual_conditions[i].condition = arg.conditions[i].name
              /\ Unassessable(arg.conditions[i])
                 => /\ res.value.individual_conditions[i].rating = 0
                    /\ ~res.value.individual_conditions[i].tod_found

\* the impact level the specification gives to a combined rating
ImpactOfCombined(t) ==
    IF t >= 75 THEN "severe"
    ELSE IF t >= 50 THEN "moderate_to_severe"
    ELSE IF t >= 25 THEN "moderate"
    ELSE "mild"

\* C14 as claimed: in every assessment assess_case returns, the impact level
\* of quality_of_life_impact is the level of the combined rating reported as
\* total_disability_rating: "severe" from 75, "moderate_to_severe" from 50,
\* "moderate" from 25, "mild" below.
C14_ImpactFollowsCombinedRating ==
    (pc = "done" /\ op = "assess_case" /\ res.raised = "")
    => res.value.quality_of_life_impact.impact_level
           = ImpactOfCombined(res.value.total_disability_rating)

\* the pct_applied flag as calculate_rating reads it: false when the
\* combination result has none
PctApplied == Get(Breakdown, "pct_applied", FALSE)

\* C15 as claimed: with at least one pre-existing condition the combination
\* result has pct_applied true and confidence "medium", for zero, one or
\* several resolved conditions; with none pct_applied is false.
C15_PreExistingAlwaysApplied ==
    Combined
    => IF arg.pre_existing # <<>>
       THEN PctApplied /\ Breakdown.confidence = "medium"
       ELSE ~PctApplied

\* C15 as amended: when at least one condition resolves, pct_applied is true
\* exactly when a pre-existing condition is supplied, and then the confidence
\* is "medium"; when no condition resolves the combination result has no
\* pct_applied flag (calculate_rating reports false) and confidence "low",
\* with or without pre-existing conditions.
C15_PreExistingAppliedToRatings ==
    Combined
    => IF ResolvedRatings # <<>>
       THEN /\ "pct_applied" \in DOMAIN Breakdown
            /\ PctApplied = (arg.pre_existing # <<>>)
            /\ (arg.pre_existing # <<>> => Breakdown.confidence = "medium")
       ELSE /\ op # "calculate_rating" => "pct_applied" \notin DOMAIN Breakdown
            /\ ~PctApplied
            /\ Breakdown.confidence = "low"

\* C15: a single resolved condition, which alone has confidence "high", in a
\* case with a pre-existing condition
C15_Witness ==
    /\ Combined
    /\ Len(ResolvedRatings) = 1
    /\ arg.pre_existing # <<>>
    /\ PctApplied
    /\ Breakdown.confidence = "medium"

(***************************************************************************)
(* The evidence                                                            *)
(***************************************************************************)
Evaluated ==
    /\ pc = "done" /\ op = "_evaluate_medical_evidence"
    /\ res.raised = ""

\* the number k of snippets whose content holds the name, letter case aside
RECURSIVE Mentions(_, _)
Mentions(name, snippets) ==
    IF snippets = <<>> THEN 0
    ELSE Mentions(name, Tail(snippets))
         + (IF Contains(Lower(Head(snippets).content.val), Lower(name)) THEN 1 ELSE 0)

\* C16: the evidence quality depends only on the number k of snippets whose
\* content contains the condition name case-insensitively: 0 "insufficient",
\* 1 "limited", 2 "adequate", 3 or more "comprehensive"; evidence_count is k
\* and adequacy_for_rating is true exactly when k >= 2.
C16_EvidenceQualityByCount ==
    Evaluated
    => LET k == Mentions(arg.condition_name.val, arg.medical_evidence)
       IN /\ res.value.evidence_count = k
          /\ res.value.quality_assessment =
                 (IF k = 0 THEN "insufficient"
                  ELSE IF k = 1 THEN "limited"
                  ELSE IF k = 2 THEN "adequate"
                  ELSE "comprehensive")
          /\ res.value.adequacy_for_rating = (k >= 2)

\* C16: two snippets that hold the name in another letter case, and one
\* that does not hold it
C16_Witness ==
    /\ Evaluated
    /\ Len(arg.medical_evidence) = 3
    /\ arg.condition_name.val = <<65, 98>>
    /\ res.value.evidence_count = 2
    /\ res.value.quality_assessment = "adequate"

(***************************************************************************)
(* The store built from a dataset file                                     *)
(***************************************************************************)
\* What json.load leaves in tod_data.  kind: "missing" (no file, or a file
\* that is not JSON: tod_data stays {}), "number" (the file holds the number
\* `value`), "object" (the file holds a non-empty object).  Each of the three
\* sections of an object has a shape: "absent", "object" (a map, given by its
\* items in file order) or "list" (not a map).
Section(shape, items) == [shape |-> shape, items |-> items]

Absent == Section("absent", <<>>)

RawData(kind, chapters, conditions, rating_tables) ==
    [kind |-> kind, chapters |-> chapters, conditions |-> conditions,
     rating_tables |-> rating_tables]

\* a dataset file that holds the number n
RawNumber(n) ==
    [kind |-> "number", value |-> n, chapters |-> Absent, conditions |-> Absent,
     rating_tables |-> Absent]

\* `not self.tod_data`: true of the {} left when nothing was loaded and of
\* the number 0
NoData(tod_data) ==
    \/ tod_data.kind = "missing"
    \/ tod_data.kind = "number" /\ tod_data.value = 0

\* `section in self.tod_data`, for tod_data an object
HasSection(section) == section.shape # "absent"

\* the items a loop of _build_indexes meets before the first one that is not
\* an object, on which .get raises
WellFormedPrefix(items) ==
    LET bad == {i \in 1..Len(items) : items[i].shape # "object"}
        stop == IF bad = {} THEN Len(items) + 1
                ELSE CHOOSE i \in bad : \A j \in bad : i <= j
    IN SubSeq(items, 1, stop - 1)

\* a loop of _build_indexes over a section raises: the section is not a map,
\* or one of its items is not an object
SectionRaises(section) ==
    \/ section.shape = "list"
    \/ \E i \in 1..Len(section.items) : section.items[i].shape # "object"

\* _build_indexes, the entry of a chapter
ChapterEntry(item) ==
    [id |-> item.id, title |-> item.title, conditions |-> item.conditions]

\* _build_indexes, the entries of the chapters met before an exception
IndexChapters(section) ==
    IF section.shape = "list" THEN <<>>
    ELSE Let(WellFormedPrefix(section.items), LAMBDA items :
             [i \in 1..Len(items) |-> ChapterEntry(items[i])])

\* _build_indexes, the entries of the conditions met before an exception
IndexConditions(section) ==
    IF section.shape = "list" THEN <<>>
    ELSE Let(WellFormedPrefix(section.items), LAMBDA items :
             [i \in 1..Len(items) |-> items[i].condition])

\* _build_indexes, the rating tables: whatever the items hold is stored
IndexRatingTables(section) ==
    IF section.shape = "list" THEN <<>> ELSE section.items

StoreOf(tod_data, chapters_index, conditions_index, rating_tables, search_index) ==
    [tod_data         |-> tod_data,
     chapters_index   |-> chapters_index,
     conditions_index |-> conditions_index,
     rating_tables    |-> rating_tables,
     search_index     |-> search_index]

\* __init__: _load_tod_data, then _build_indexes, whose except clause stops
\* the indexing at the first exception and keeps what is indexed by then
LoadStore(raw) ==
    IF NoData(raw) \/ raw.kind # "object" THEN StoreOf(raw, <<>>, <<>>, <<>>, <<>>)
    ELSE Let(IndexChapters(raw.chapters), LAMBDA chapters_index :
         IF SectionRaises(raw.chapters)
         THEN StoreOf(raw, chapters_index, <<>>, <<>>, <<>>)
         ELSE Let(IndexConditions(raw.conditions), LAMBDA conditions_index :
              IF SectionRaises(raw.conditions)
              THEN StoreOf(raw, chapters_index, conditions_index, <<>>, <<>>)
              ELSE IF raw.rating_tables.shape = "list"
              THEN StoreOf(raw, chapters_index, conditions_index, <<>>, <<>>)
              ELSE StoreOf(raw, chapters_index, conditions_index,
                           IndexRatingTables(raw.rating_tables),
                           BuildSearchIndex(conditions_index))))

\* get_stats()
GetStats(st) ==
    [total_chapters      |-> Len(st.chapters_index),
     total_conditions    |-> Len(st.conditions_index),
     total_rating_tables |-> Len(st.rating_tables),
     search_index_size   |-> Len(st.search_index)]

\* validate_data(), the warnings
ValidationWarnings(st) ==
    (IF ~HasSection(st.tod_data.conditions) THEN <<"No conditions section found">> ELSE <<>>)
    \o (IF st.conditions_index = <<>> THEN <<"No conditions found in data">> ELSE <<>>)
    \o (IF st.chapters_index = <<>> THEN <<"No chapters found in data">> ELSE <<>>)

\* validate_data(): `"chapters" not in self.tod_data` raises for a number
\* other than 0
ValidateData(st) ==
    IF NoData(st.tod_data)
    THEN Returns([valid |-> FALSE, errors |-> <<"No VAC ToD data loaded">>,
                  warnings |-> <<>>, stats |-> GetStats(st)])
    ELSE IF st.tod_data.kind = "number" THEN Raises("TypeError")
    ELSE Returns([valid    |-> HasSection(st.tod_data.chapters),
                  errors   |-> IF HasSection(st.tod_data.chapters) THEN <<>>
                               ELSE <<"Missing required section: chapters">>,
                  warnings |-> ValidationWarnings(st),
                  stats    |-> GetStats(st)])

\* validate_data(), its in-place statements: validation["valid"] = False
\* and the appends to validation["errors"] and validation["warnings"], all
\* on the dict literal `validation` and its lists
WritesOfValidateData(st) ==
    Let(ValidateData(st), LAMBDA validation :
        IF validation.raised # "" THEN NoWrites
        ELSE (IF validation.value.valid THEN <<>>
              ELSE <<SetItem(Fresh, "valid", FALSE)>>)
             \o [n \in 1..Len(validation.value.errors) |-> Appended(Fresh)]
             \o [n \in 1..Len(validation.value.warnings) |-> Appended(Fresh)])

(***************************************************************************)
(* The read operations of the store                                        *)
(***************************************************************************)
\* get_condition_by_id(condition_id): <<>> is None
GetConditionById(st, condition_id) ==
    LET found == SelectSeq(st.conditions_index, LAMBDA c : c.id = condition_id)
    IN IF found = <<>> THEN <<>> ELSE <<found[1]>>

\* sorted(conditions, key=name): each condition goes behind the conditions
\* whose name is not greater, so equal names keep their order
RECURSIVE InsertByName(_, _)
InsertByName(c, sorted) ==
    IF sorted = <<>> THEN <<c>>
    ELSE IF StrLE(Head(sorted).name, c.name) THEN <<Head(sorted)>> \o InsertByName(c, Tail(sorted))
    ELSE <<c>> \o sorted

RECURSIVE SortByName(_, _)
SortByName(conditions, sorted) ==
    IF conditions = <<>> THEN sorted
    ELSE SortByName(Tail(conditions), InsertByName(Head(conditions), sorted))

\* get_chapter_conditions(chapter_id)
GetChapterConditions(st, chapter_id) ==
    SortByName(SelectSeq(st.conditions_index, LAMBDA c : c.chapter = chapter_id), <<>>)

\* the ids of the datasets, in the order in which Python compares them
IdOrder == <<"ch1", "ch2", "ch3">>

IdLE(a, b) ==
    \E i, j \in 1..Len(IdOrder) : IdOrder[i] = a /\ IdOrder[j] = b /\ i <= j

\* sorted(chapters, key=id)
RECURSIVE InsertById(_, _)
InsertById(c, sorted) ==
    IF sorted = <<>> THEN <<c>>
    ELSE IF IdLE(Head(sorted).id, c.id) THEN <<Head(sorted)>> \o InsertById(c, Tail(sorted))
    ELSE <<c>> \o sorted

RECURSIVE SortById(_, _)
SortById(chapters, sorted) ==
    IF chapters = <<>> THEN sorted
    ELSE SortById(Tail(chapters), InsertById(Head(chapters), sorted))

\* ChapterInfo that counts the conditions listed by the chapter entry instead
\* of the conditions of the condition map
ChapterInfo_countsListed(st, chapter) ==
    [id              |-> chapter.id,
     title           |-> chapter.title,
     conditions      |-> chapter.conditions,
     condition_count |-> Len(chapter.conditions)]

\* chapter_info = dict(chapter); chapter_info["condition_count"] = ...
ChapterInfo(st, chapter) ==
    [id              |-> chapter.id,
     title           |-> chapter.title,
     conditions      |-> chapter.conditions,
     condition_count |-> Len(GetChapterConditions(st, chapter.id))]

\* get_all_chapters()
GetAllChapters(st) ==
    SortById([i \in 1..Len(st.chapters_index) |-> ChapterInfo(st, st.chapters_index[i])],
             <<>>)

\* get_all_chapters(), its in-place statements: condition_count is set on
\* chapter_info, the dict(chapter) of each stored chapter, and chapter_info
\* is appended to the list the call has made
WritesOfGetAllChapters(st) ==
    [n \in 1..(2 * Len(st.chapters_index)) |->
        IF n % 2 = 1
        THEN SetItem(DictCopy(Stored("chapters_index", (n + 1) \div 2)), "condition_count",
                     Len(GetChapterConditions(st, st.chapters_index[(n + 1) \div 2].id)))
        ELSE Appended(Fresh)]

\* get_chapter_conditions(chapter_id), its in-place statements:
\* conditions.append on the list the call has made
WritesOfGetChapterConditions(st, chapter_id) ==
    [n \in 1..Len(GetChapterConditions(st, chapter_id)) |-> Appended(Fresh)]

\* get_rating_table(table_id): <<>> is None
GetRatingTable(st, table_id) ==
    LET found == SelectSeq(st.rating_tables, LAMBDA t : t.id = table_id)
    IN IF found = <<>> THEN <<>> ELSE <<found[1]>>

\* get_condition_rating_info(condition_id): the tables the condition refers
\* to that the store holds and that are not empty
GetConditionRatingInfo(st, condition_id) ==
    Let(GetConditionById(st, condition_id), LAMBDA condition :
        IF condition = <<>> THEN <<>>
        ELSE LET refs == condition[1].rating_criteria.tables
                 held == SelectSeq(refs, LAMBDA ref :
                             /\ GetRatingTable(st, ref) # <<>>
                             /\ GetRatingTable(st, ref)[1].info # <<>>)
             IN << [condition       |-> condition[1],
                    rating_criteria |-> condition[1].rating_criteria,
                    tables          |-> [i \in 1..Len(held) |-> GetRatingTable(st, held[i])[1]]] >>)

\* get_condition_rating_info, its in-place statements:
\* rating_info["tables"].append on the list literal of rating_info
WritesOfGetConditionRatingInfo(st, condition_id) ==
    Let(GetConditionRatingInfo(st, condition_id), LAMBDA rating_info :
        IF rating_info = <<>> THEN NoWrites
        ELSE [n \in 1..Len(rating_info[1].tables) |-> Appended(Fresh)])

(***************************************************************************)
(* search_conditions                                                       *)
(***************************************************************************)
\* the inclusion threshold of search_conditions
InclusionThreshold == 50

\* relevance = max(name_score, desc_score, max_symptom_score)
Relevance(query_lower, condition) ==
    Max2(Max2(FuzzPartialRatio(query_lower, Lower(condition.name)),
              FuzzPartialRatio(query_lower, Lower(condition.description))),
         SetMax({FuzzPartialRatio(query_lower, Lower(condition.symptoms[i])) :
                    i \in 1..Len(condition.symptoms)}))

\* `relevance > 50`: the threshold is the literal of the source
Included(relevance) == relevance > InclusionThreshold

\* `chapter and ...`: a chapter that is None or "" does not filter
ChapterGiven(chapter) == chapter.type = "str" /\ chapter.val # ""

\* {**condition, "relevance_score": relevance}
SearchEntry(condition, relevance) ==
    [f \in DOMAIN condition \cup {"relevance_score"} |->
        IF f = "relevance_score" THEN relevance ELSE condition[f]]

\* the loop of search_conditions: the results before they are sorted
RECURSIVE SearchMatches(_, _, _)
SearchMatches(conditions, query_lower, chapter) ==
    IF conditions = <<>> THEN <<>>
    ELSE IF ChapterGiven(chapter) /\ Head(conditions).chapter # chapter.val
    THEN SearchMatches(Tail(conditions), query_lower, chapter)
    ELSE Let(Relevance(query_lower, Head(conditions)), LAMBDA relevance :
             (IF Included(relevance)
              THEN <<SearchEntry(Head(conditions), relevance)>> ELSE <<>>)
             \o SearchMatches(Tail(conditions), query_lower, chapter))

\* SortByRelevance that leaves the results in the order of the store
SortByRelevance_unsorted(results, sorted) == sorted \o results

RECURSIVE InsertByRelevance(_, _)
InsertByRelevance(e, sorted) ==
    IF sorted = <<>> THEN <<e>>
    ELSE IF Head(sorted).relevance_score >= e.relevance_score
    THEN <<Head(sorted)>> \o InsertByRelevance(e, Tail(sorted))
    ELSE <<e>> \o sorted

\* results.sort(key=relevance_score, reverse=True): equal scores keep their
\* order
RECURSIVE SortByRelevance(_, _)
SortByRelevance(results, sorted) ==
    IF results = <<>> THEN sorted
    ELSE SortByRelevance(Tail(results), InsertByRelevance(Head(results), sorted))

\* results[:limit]; a negative limit counts from the end
Cut(results, limit) ==
    IF limit >= 0 THEN SubSeq(results, 1, Min2(limit, Len(results)))
    ELSE SubSeq(results, 1, Max2(Len(results) + limit, 0))

\* search_conditions, its in-place statements: for each condition included,
\* relevance_score is set in {**condition, ...}, a new dict with the items
\* of the stored condition, which is appended to results; results is sorted
\* in place
WritesOfSearchConditions(st, query, chapter) ==
    IF ~Truthy(query) THEN NoWrites
    ELSE LET included == SelectSeq([i \in 1..Len(st.conditions_index) |-> i], LAMBDA i :
                 SearchMatches(<<st.conditions_index[i]>>, Strip(Lower(query.val)),
                               chapter) # <<>>)
         IN [n \in 1..(2 * Len(included)) |->
                IF n % 2 = 1
                THEN SetItem(DictCopy(Stored("conditions_index", included[(n + 1) \div 2])),
                             "relevance_score",
                             Relevance(Strip(Lower(query.val)),
                                       st.conditions_index[included[(n + 1) \div 2]]))
                ELSE Appended(Fresh)]
            \o <<Appended(Fresh)>>

\* search_conditions(query, chapter, limit)
SearchConditions(st, query, chapter, limit) ==
    IF ~Truthy(query) THEN <<>>
    ELSE Let(SearchMatches(st.conditions_index, Strip(Lower(query.val)), chapter),
             LAMBDA results : Cut(SortByRelevance(results, <<>>), limit))

(***************************************************************************)
(* The datasets, and the store under all its operations                    *)
(***************************************************************************)
StoreCondition(id, name, chapter, description, keywords, symptoms, tables) ==
    [id |-> id, name |-> name, chapter |-> chapter, description |-> description,
     keywords |-> keywords, symptoms |-> symptoms,
     rating_criteria |-> [tables |-> tables]]

\* an item of a section that is an object, and one that is a string
ChapterItem(id, title) ==
    [id |-> id, shape |-> "object", title |-> title, conditions |-> <<>>]

ConditionItem(condition) ==
    [id |-> condition.id, shape |-> "object", condition |-> condition]

StringItem(id) == [id |-> id, shape |-> "string"]

\* "Ab" in chapter ch2 (symptom "bb"; tables t1 and tx), "ba " in ch1
\* (description "a b", keyword "a a"), "Ab" in ch1 (symptoms "ab", "B";
\* table t2)
CondAb2 == StoreCondition("c1", <<65, 98>>, "ch2", <<>>, <<>>, << <<98, 98>> >>, <<"t1", "tx">>)

CondBa == StoreCondition("c2", <<98, 97, 32>>, "ch1", <<97, 32, 98>>, << <<97, 32, 97>> >>, <<>>, <<>>)

CondAb1 == StoreCondition("c3", <<65, 98>>, "ch1", <<>>, <<>>, << <<97, 98>>, <<66>> >>, <<"t2">>)

\* chapters ch2 and ch1, in this order in the file
ChaptersSection == Section("object", <<ChapterItem("ch2", <<66>>), ChapterItem("ch1", <<65>>)>>)

ConditionsSection ==
    Section("object", <<ConditionItem(CondAb2), ConditionItem(CondBa), ConditionItem(CondAb1)>>)

\* table t1, and the empty table t2
TablesSection == Section("object", << [id |-> "t1", info |-> <<1>>], [id |-> "t2", info |-> <<>>] >>)

\* The dataset files: none; the numbers 0 and 5; the three sections; each section
\* lacking in turn; an item that is a string in the middle of the chapters and
\* of the conditions; a chapters section and a rating_tables section that are
\* lists; chapters without a chapter.
RawDatasets ==
    {RawData("missing", Absent, Absent, Absent),
     RawNumber(0),
     RawNumber(5),
     RawData("object", ChaptersSection, ConditionsSection, TablesSection),
     RawData("object", ChaptersSection, Absent, Absent),
     RawData("object", Absent, ConditionsSection, TablesSection),
     RawData("object", ChaptersSection, ConditionsSection, Absent),
     RawData("object",
             Section("object", <<ChapterItem("ch2", <<66>>), StringItem("ch3"),
                                 ChapterItem("ch1", <<65>>)>>),
             ConditionsSection, TablesSection),
     RawData("object", ChaptersSection,
             Section("object", <<ConditionItem(CondAb2), StringItem("c2"), ConditionItem(CondAb1)>>),
             TablesSection),
     RawData("object", Section("list", <<>>), ConditionsSection, TablesSection),
     RawData("object", ChaptersSection, ConditionsSection, Section("list", <<>>)),
     RawData("object", Section("object", <<>>), Absent, Absent)}

NoChapter == [type |-> "NoneType", val |-> ""]

\* the chapter filters: None, "", "ch1", "ch2"
ChapterFilters == {NoChapter} \cup {[type |-> "str", val |-> c] : c \in {"", "ch1", "ch2"}}

\* the largest limit that cuts a result; 10 is the default
MaxLimit == 2

Limits == (-1..MaxLimit) \cup {10}

ConditionIds == {"c1", "c2", "cx"}

ChapterIds == {"ch1", "ch2", "ch3"}

TableIds == {"t1", "t2", "tx"}

InitStore ==
    /\ store \in {LoadStore(raw) : raw \in RawDatasets}
    /\ pc = "idle"
    /\ op = "none"
    /\ arg = <<>>
    /\ res = <<>>
    /\ calls = <<>>
    /\ heap = <<>>
    /\ returned = <<>>

CallSearchConditions ==
    /\ pc = "idle"
    /\ \E query \in Queries, chapter \in ChapterFilters, limit \in Limits :
           Call("search_conditions",
                [query |-> query, chapter |-> chapter, limit |-> limit],
                SearchConditions(store, query, chapter, limit),
                WritesOfSearchConditions(store, query, chapter))

CallValidateData ==
    /\ pc = "idle"
    /\ Call("validate_data", <<>>, ValidateData(store), WritesOfValidateData(store))

\* get_stats, get_condition_by_id and get_rating_table have no in-place
\* statement
CallGetStats ==
    /\ pc = "idle"
    /\ Call("get_stats", <<>>, GetStats(store), NoWrites)

CallGetConditionById ==
    /\ pc = "idle"
    /\ \E id \in ConditionIds :
           Call("get_condition_by_id", [condition_id |-> id], GetConditionById(store, id),
                NoWrites)

CallGetChapterConditions ==
    /\ pc = "idle"
    /\ \E id \in ChapterIds :
           Call("get_chapter_conditions", [chapter_id |-> id],
                GetChapterConditions(store, id),
                WritesOfGetChapterConditions(store, id))

CallGetAllChapters ==
    /\ pc = "idle"
    /\ Call("get_all_chapters", <<>>, GetAllChapters(store), WritesOfGetAllChapters(store))

CallGetRatingTable ==
    /\ pc = "idle"
    /\ \E id \in TableIds :
           Call("get_rating_table", [table_id |-> id], GetRatingTable(store, id), NoWrites)

CallGetConditionRatingInfo ==
    /\ pc = "idle"
    /\ \E id \in ConditionIds :
           Call("get_condition_rating_info", [condition_id |-> id],
                GetConditionRatingInfo(store, id),
                WritesOfGetConditionRatingInfo(store, id))

\* VACRatingEngine(): __init__ calls validate_data, so there is an engine
\* to call only over a store on which validate_data does not raise
EngineConstructed == ValidateData(store).raised = ""

NextStore ==
    \/ CallSearchConditions
    \/ CallValidateData
    \/ CallGetStats
    \/ CallGetConditionById
    \/ CallGetChapterConditions
    \/ CallGetAllChapters
    \/ CallGetRatingTable
    \/ CallGetConditionRatingInfo
    \/ CallFindCondition
    \/ CallCalculateBasicRating
    \/ EngineConstructed /\ CallAssessCase
    \/ EngineConstructed /\ CallCalculateRating
    \/ Return

SpecStore == InitStore /\ [][NextStore]_vars


\* ---------------------------------------------------------------------------
\* Claims about the reference store
\* ---------------------------------------------------------------------------

\* a call of search_conditions has returned
Searching == pc = "done" /\ op = "search_conditions"

\* the relevance of a store condition for the query of the call
SearchScore(condition) == Relevance(Strip(Lower(arg.query.val)), condition)

\* the store conditions that qualify for the call: above the inclusion
\* threshold and, when `filtered`, in the chapter of the call
Qualifying(filtered) ==
    {i \in 1..Len(store.conditions_index) :
        /\ SearchScore(store.conditions_index[i]) > InclusionThreshold
        /\ (filtered => store.conditions_index[i].chapter = arg.chapter.val)}

\* the contract of search_conditions, for a call whose chapter filter counts
\* as given when `filtered`
SearchContract(filtered) ==
    /\ Len(res) <= arg.limit
    /\ \A j \in 1..Len(res) :
           /\ \E i \in Qualifying(filtered) :
                  res[j] = SearchEntry(store.conditions_index[i],
                                       SearchScore(store.conditions_index[i]))
           /\ j < Len(res) => res[j].relevance_score >= res[j + 1].relevance_score
    /\ \A i \in Qualifying(filtered) :
           \/ \E j \in 1..Len(res) : res[j].id = store.conditions_index[i].id
           \/ /\ Len(res) = arg.limit
              /\ \A j \in 1..Len(res) :
                     res[j].relevance_score >= SearchScore(store.conditions_index[i])

\* C11 as stated: for a non-empty query and limit >= 0, search_conditions
\* returns store conditions scoring above 50, all in the requested chapter
\* whenever a chapter string is passed, in non-increasing order of score,
\* omitting a qualifying condition only when limit entries scoring at least as
\* high are returned, and at most limit entries
C11_SearchContractAnyChapter ==
    (Searching /\ Truthy(arg.query) /\ arg.limit >= 0)
        => SearchContract(arg.chapter.type = "str")

\* C11: for a non-empty query and limit >= 0, search_conditions returns store
\* conditions scoring above 50, all in the requested chapter whenever a
\* non-empty chapter is passed (None and "" do not filter), in non-increasing
\* order of score, omitting a qualifying condition only when limit entries
\* scoring at least as high are returned, and at most limit entries
C11_SearchContract ==
    (Searching /\ Truthy(arg.query) /\ arg.limit >= 0)
        => SearchContract(ChapterGiven(arg.chapter))

\* C11: a search cut by its limit: two entries returned in decreasing order of
\* score while a third qualifying condition is left out
C11_Witness ==
    /\ Searching /\ Truthy(arg.query) /\ arg.limit = 2
    /\ Len(res) = 2
    /\ res[1].relevance_score > res[2].relevance_score
    /\ Cardinality(Qualifying(ChapterGiven(arg.chapter))) = 3


\* a call of validate_data has ended
Validating == pc = "done" /\ op = "validate_data"

\* the dataset the store was built from has a chapters section
DatasetHasChapters ==
    /\ ~NoData(store.tod_data)
    /\ store.tod_data.kind = "object"
    /\ HasSection(store.tod_data.chapters)

\* C17 as stated: validate_data reports valid = false exactly when the dataset
\* lacks the chapters section, then with at least one error; with chapters it
\* reports valid = true and no error, whatever other section is missing; and
\* the stats it reports are the sizes of the four maps
C17_ValidityFollowsChapters ==
    Validating =>
        /\ res.raised = ""
        /\ res.value.valid <=> DatasetHasChapters
        /\ ~res.value.valid => res.value.errors # <<>>
        /\ res.value.valid => res.value.errors = <<>>
        /\ res.value.stats = [total_chapters      |-> Len(store.chapters_index),
                              total_conditions    |-> Len(store.conditions_index),
                              total_rating_tables |-> Len(store.rating_tables),
                              search_index_size   |-> Len(store.search_index)]

\* C17, for a dataset whose root is an object or that was not loaded: the
\* statement above holds
C17_ValidityFollowsChaptersOfObject ==
    (Validating /\ store.tod_data.kind # "number") =>
        /\ res.raised = ""
        /\ res.value.valid <=> DatasetHasChapters
        /\ ~res.value.valid => res.value.errors # <<>>
        /\ res.value.valid => res.value.errors = <<>>
        /\ res.value.stats = GetStats(store)


\* the dataset the store was built from is missing or malformed: not loaded,
\* not an object, a section that is not a map, or an entry of the chapters or
\* the conditions that is not an object
MalformedDataset ==
    \/ NoData(store.tod_data)
    \/ store.tod_data.kind # "object"
    \/ SectionRaises(store.tod_data.chapters)
    \/ SectionRaises(store.tod_data.conditions)
    \/ store.tod_data.rating_tables.shape = "list"

\* C18 as stated: a store constructed from a missing or malformed dataset is
\* empty: no chapter, no condition, no rating table and no search-index entry
C18_MalformedLeavesStoreEmpty ==
    MalformedDataset =>
        /\ store.chapters_index = <<>>
        /\ store.conditions_index = <<>>
        /\ store.rating_tables = <<>>
        /\ store.search_index = <<>>


\* C19: no step of any operation of the store or of the engine changes the
\* chapter map, the condition map, the rating-table map or the search index
C19_StoreReadOnly == [][store' = store]_vars

\* C19: get_all_chapters has returned the two chapters of a full store with
\* their condition counts, and the stored chapters carry no condition_count
C19_Witness ==
    /\ pc = "done" /\ op = "get_all_chapters"
    /\ Len(res) = 2
    /\ res[1].condition_count = 2
    /\ Len(store.chapters_index) = 2
    /\ \A i \in 1..Len(store.chapters_index) :
           "condition_count" \notin DOMAIN store.chapters_index[i]
    /\ store.search_index # <<>>


(***************************************************************************)
(* The engine under concurrent calls: every call of assess_case or         *)
(* calculate_rating has a frame with its local variables, the lists and    *)
(* dicts it makes live in one heap, and the calls take their steps in any  *)
(* order                                                                   *)
(***************************************************************************)
\* the number of calls that run at the same time
MaxCalls == 2

CallIds == 1..MaxCalls

\* "ab ptsd", "ab back"
T_ab_ptsd == <<97, 98, 32>> \o T_ptsd

T_ab_back == <<97, 98, 32>> \o T_back

\* The cases of the concurrent calls: "ab ptsd" rated total; "ab" rated total;
\* a condition without a name; "ab back" rated severe with an unknown "zz",
\* evidence and a pre-existing condition
ConcurrentCases ==
    {[conditions |-> <<CaseCondition(PyStr(T_ab_ptsd), PyStr(T_total), Symptoms(0))>>,
      pre_existing |-> <<>>, medical_evidence |-> <<>>],
     [conditions |-> <<CaseCondition(PyStr(<<97, 98>>), PyStr(T_total), Symptoms(0))>>,
      pre_existing |-> <<>>, medical_evidence |-> <<>>],
     [conditions |-> <<CaseCondition(PyNone, PyStr(T_severe), Symptoms(0))>>,
      pre_existing |-> <<>>, medical_evidence |-> <<>>],
     [conditions |-> <<CaseCondition(PyStr(T_ab_back), PyStr(T_severe), Symptoms(0)),
                       CaseCondition(PyStr(<<122, 122>>), PyStr(T_total), Symptoms(0))>>,
      pre_existing |-> <<CaseCondition(PyStr(<<97, 98>>), PyStr(T_mild), Symptoms(0))>>,
      medical_evidence |-> <<Evidence(PyStr(<<120, 32, 65, 66, 32, 121>>))>>]}

\* The rating data of the concurrent calls: "ab" moderate with four symptoms
\* and "ba" minimal; and no condition
ConcurrentRatingData ==
    {[conditions |-> <<CaseCondition(PyStr(<<97, 98>>), PyStr(T_moderate), Symptoms(4)),
                       CaseCondition(PyStr(<<98, 97>>), PyStr(T_minimal), Symptoms(0))>>,
      pre_existing |-> <<>>],
     [conditions |-> <<>>, pre_existing |-> <<>>]}

\* no object
NoAddress == -1

NoRef == [addr |-> NoAddress, key |-> ""]

\* the frame of a call that has not started; assessed_conditions and
\* base_recommendations hold the address of their object, recommendations
\* the list it names: an object of the heap, or the value under a key of one
IdleFrame ==
    [at |-> "idle", op |-> "none", input |-> <<>>, assessed_conditions |-> NoAddress,
     combined_rating |-> <<>>, impact_level |-> "", functional_limitations |-> <<>>,
     base_recommendations |-> NoAddress, recommendations |-> NoRef,
     qol_impact |-> <<>>, result |-> <<>>]

\* the store of the engine with its two conditions, no call and no object
InitConcurrent ==
    /\ store \in {BuildStore(d) : d \in EngineDatasets \ {<<>>}}
    /\ pc = "idle"
    /\ op = "none"
    /\ arg = <<>>
    /\ res = <<>>
    /\ calls = [c \in CallIds |-> IdleFrame]
    /\ heap = <<>>
    /\ returned = <<>>

\* a new object gets an address no object has: the lowest one
NewAddress(h) ==
    CHOOSE a \in 1..(Cardinality(DOMAIN h) + 1) :
        a \notin DOMAIN h /\ \A b \in 1..(a - 1) : b \in DOMAIN h

\* RecommendationsAddress for a base_recommendations dict that the engine
\* holds, one for all calls
RecommendationsAddress_heldByEngine(h) == 0

\* base_recommendations = {...}: the dict literal is a new object
RecommendationsAddress(h) == NewAddress(h)

\* the heap with the object v at the address a
With(h, a, v) == [x \in DOMAIN h \cup {a} |-> IF x = a THEN v ELSE h[x]]

\* the list a reference names
Deref(h, ref) == IF ref.key = "" THEN h[ref.addr] ELSE h[ref.addr][ref.key]

\* the heap after the list a reference names has become v
Assign(h, ref, v) ==
    IF ref.key = "" THEN [h EXCEPT ![ref.addr] = v]
    ELSE [h EXCEPT ![ref.addr][ref.key] = v]

\* the objects the frames refer to; the others are garbage
Referenced(frames) ==
    UNION {{frames[c].assessed_conditions, frames[c].base_recommendations,
            frames[c].recommendations.addr} : c \in CallIds}

Collect(h, frames) == [x \in DOMAIN h \cap Referenced(frames) |-> h[x]]

\* the call c is at the step `at`
At(c, at) == calls[c].at = at

\* the call c takes a step that leaves its frame as `frame` and the heap as h
Step(c, frame, h) ==
    /\ calls' = [calls EXCEPT ![c] = frame]
    /\ heap' = Collect(h, [calls EXCEPT ![c] = frame])
    /\ UNCHANGED <<store, pc, op, arg, res, returned>>

\* assess_case(case_data) is called: the locals of lines 36-38 and the list
\* assessed_conditions = [] of line 41
StartAssessCase(c) ==
    /\ At(c, "idle")
    /\ \E case_data \in ConcurrentCases :
           Step(c, [IdleFrame EXCEPT !.at = "conditions", !.op = "assess_case",
                                     !.input = case_data,
                                     !.assessed_conditions = NewAddress(heap)],
                With(heap, NewAddress(heap), <<>>))

\* calculate_rating(rating_data) is called: no medical evidence
StartCalculateRating(c) ==
    /\ At(c, "idle")
    /\ \E rating_data \in ConcurrentRatingData :
           Step(c, [IdleFrame EXCEPT !.at = "conditions", !.op = "calculate_rating",
                                     !.input = [conditions |-> rating_data.conditions,
                                                pre_existing |-> rating_data.pre_existing,
                                                medical_evidence |-> <<>>],
                                     !.assessed_conditions = NewAddress(heap)],
                With(heap, NewAddress(heap), <<>>))

\* one turn of the loop over the conditions: _assess_condition reads the
\* search index of the store and assessed_conditions.append(assessment)
\* writes the list of the heap
AssessNextCondition(c) ==
    /\ At(c, "conditions")
    /\ Len(heap[calls[c].assessed_conditions]) < Len(calls[c].input.conditions)
    /\ Step(c, calls[c],
            [heap EXCEPT ![calls[c].assessed_conditions] =
                Append(@, AssessCondition(store.search_index,
                                          calls[c].input.conditions[Len(@) + 1],
                                          calls[c].input.medical_evidence))])

\* after the loop: _calculate_combined_rating(assessed_conditions, pre_existing)
Combine(c) ==
    /\ At(c, "conditions")
    /\ Len(heap[calls[c].assessed_conditions]) = Len(calls[c].input.conditions)
    /\ Step(c, [calls[c] EXCEPT
                   !.combined_rating =
                       CalculateCombinedRating(heap[calls[c].assessed_conditions],
                                               calls[c].input.pre_existing),
                   !.at = IF calls[c].op = "assess_case" THEN "quality_of_life"
                          ELSE "result"],
            heap)

\* _assess_quality_of_life up to its call of _generate_qol_recommendations:
\* the impact level and the functional limitations
QualityOfLifeStart(c) ==
    /\ At(c, "quality_of_life")
    /\ LET limitations == AssessFunctionalLimitations(heap[calls[c].assessed_conditions])
       IN IF limitations.raised # ""
          THEN Step(c, [calls[c] EXCEPT !.qol_impact = limitations, !.at = "result"], heap)
          ELSE Step(c, [calls[c] EXCEPT
                           !.impact_level =
                               ImpactLevel(SumFoundRatings(heap[calls[c].assessed_conditions])),
                           !.functional_limitations = limitations.value,
                           !.at = "base_recommendations"],
                    heap)

\* _generate_qol_recommendations builds base_recommendations and takes
\* recommendations = base_recommendations.get(impact_level, []): the list the
\* dict holds for the level, or a new empty list
BuildRecommendations(c) ==
    /\ At(c, "base_recommendations")
    /\ LET a == RecommendationsAddress(heap)
           built == With(heap, a, BaseRecommendations)
       IN IF calls[c].impact_level \in DOMAIN BaseRecommendations
          THEN Step(c, [calls[c] EXCEPT
                           !.base_recommendations = a,
                           !.recommendations = [addr |-> a, key |-> calls[c].impact_level],
                           !.at = "append"],
                    built)
          ELSE Step(c, [calls[c] EXCEPT
                           !.base_recommendations = a,
                           !.recommendations = [addr |-> NewAddress(built), key |-> ""],
                           !.at = "append"],
                    With(built, NewAddress(built), <<>>))

\* recommendations.append(...), lines 308-314: the list is written where it
\* lives
AppendToRecommendations(c) ==
    /\ At(c, "append")
    /\ Step(c, [calls[c] EXCEPT !.at = "factors"],
            Assign(heap, calls[c].recommendations,
                   Deref(heap, calls[c].recommendations)
                       \o ExtraRecommendations(calls[c].functional_limitations)))

\* _generate_qol_recommendations returns the list, and _assess_quality_of_life
\* builds its result or raises
QualityOfLifeReturn(c) ==
    /\ At(c, "factors")
    /\ Step(c, [calls[c] EXCEPT
                   !.qol_impact =
                       QualityOfLifeResult(heap[calls[c].assessed_conditions],
                                           calls[c].impact_level,
                                           calls[c].functional_limitations,
                                           Deref(heap, calls[c].recommendations)),
                   !.base_recommendations = NoAddress,
                   !.recommendations = NoRef,
                   !.at = "result"],
            heap)

\* the result of assess_case from the locals of the call
CaseResult(combined_rating, assessed_conditions, qol_impact) ==
    IF qol_impact.raised # "" THEN Raises(qol_impact.raised)
    ELSE Returns([total_disability_rating   |-> combined_rating.total_rating,
                  individual_conditions     |-> assessed_conditions,
                  combined_rating_breakdown |-> combined_rating,
                  quality_of_life_impact    |-> qol_impact.value,
                  assessment_confidence     |-> Get(combined_rating, "confidence", "medium")])

\* the result of calculate_rating from the locals of the call
RatingResult(combined_rating, assessed_conditions) ==
    [total_rating        |-> combined_rating.total_rating,
     conditions          |-> assessed_conditions,
     method              |-> combined_rating.method,
     pct_applied         |-> Get(combined_rating, "pct_applied", FALSE),
     calculation_details |-> Get(combined_rating, "calculation_details", <<>>),
     confidence          |-> Get(combined_rating, "confidence", "medium")]

\* the return statement of assess_case / calculate_rating, or the exception
Finish(c) ==
    /\ At(c, "result")
    /\ Step(c, [calls[c] EXCEPT
                   !.result =
                       IF calls[c].op = "assess_case"
                       THEN CaseResult(calls[c].combined_rating,
                                       heap[calls[c].assessed_conditions],
                                       calls[c].qol_impact)
                       ELSE RatingResult(calls[c].combined_rating,
                                         heap[calls[c].assessed_conditions]),
                   !.assessed_conditions = NoAddress,
                   !.at = "done"],
            heap)

\* the caller takes the result and the frame is gone
TakeResult(c) ==
    /\ At(c, "done")
    /\ Step(c, IdleFrame, heap)

NextConcurrent ==
    \/ \E c \in CallIds : StartAssessCase(c)
    \/ \E c \in CallIds : StartCalculateRating(c)
    \/ \E c \in CallIds : AssessNextCondition(c)
    \/ \E c \in CallIds : Combine(c)
    \/ \E c \in CallIds : QualityOfLifeStart(c)
    \/ \E c \in CallIds : BuildRecommendations(c)
    \/ \E c \in CallIds : AppendToRecommendations(c)
    \/ \E c \in CallIds : QualityOfLifeReturn(c)
    \/ \E c \in CallIds : Finish(c)
    \/ \E c \in CallIds : TakeResult(c)

SpecConcurrent == InitConcurrent /\ [][NextConcurrent]_vars

\* the result the call c returns when no other call runs
ResultAlone(c) ==
    IF calls[c].op = "assess_case"
    THEN AssessCase(store.search_index, calls[c].input)
    ELSE CalculateRating(store.search_index, calls[c].input)

\* C20: whatever the other calls do meanwhile, under every interleaving of
\* the steps, the result a call of assess_case or calculate_rating ends with
\* is the result it returns when it runs alone
C20_ConcurrentCallsIndependent ==
    \A c \in CallIds : At(c, "done") => calls[c].result = ResultAlone(c)

\* C20: two assess_case calls have ended side by side with the same impact
\* level, one with the recommendations of its limitations appended and the
\* other with the base recommendations only
C20_Witness ==
    \E c1, c2 \in CallIds :
        /\ c1 # c2
        /\ At(c1, "done") /\ calls[c1].op = "assess_case" /\ calls[c1].result.raised = ""
        /\ At(c2, "done") /\ calls[c2].op = "assess_case" /\ calls[c2].result.raised = ""
        /\ calls[c1].result.value.quality_of_life_impact.impact_level = "severe"
        /\ calls[c2].result.value.quality_of_life_impact.impact_level = "severe"
        /\ Len(calls[c1].result.value.quality_of_life_impact.recommendations) = 7
        /\ Len(calls[c2].result.value.quality_of_life_impact.recommendations) = 5


\* ---------------------------------------------------------------------------
\* Claims about totality, the search index and the getters
\* ---------------------------------------------------------------------------

\* C29 as stated: for a text query, empty or blank included, and a threshold
\* in 0..100, find_condition does not raise and returns none or a condition
\* of the store, and none when no indexed term scores above 0
C29_FindConditionTotal ==
    (/\ pc = "done" /\ op = "find_condition"
     /\ arg.condition_name.type = "str"
     /\ arg.threshold \in 0..100)
    => /\ res.raised = ""
       /\ \/ res.value = <<>>
          \/ \E i \in 1..Len(store.conditions_index) :
                 store.conditions_index[i] = res.value[1]
       /\ BestScore = 0 => res.value = <<>>


\* the lower-cased, trimmed, non-empty forms of the name, the description,
\* the keywords and the symptoms of a condition
IndexedForms(condition) ==
    LET terms == <<condition.name, condition.description>>
                     \o condition.keywords \o condition.symptoms
        forms == [i \in 1..Len(terms) |-> Strip(Lower(terms[i]))]
    IN SelectSeq(forms, LAMBDA t : t # <<>>)

\* C30 as stated: whatever the dataset, the search index has one entry per
\* condition of the condition map, in its order, and no other; each entry
\* holds the condition, its lower-cased name and its indexed forms
C30_SearchIndexMirrorsConditions ==
    /\ Len(store.search_index) = Len(store.conditions_index)
    /\ GetStats(store).search_index_size = GetStats(store).total_conditions
    /\ \A i \in 1..Len(store.search_index) :
           /\ store.search_index[i].condition = store.conditions_index[i]
           /\ store.search_index[i].primary_name = Lower(store.conditions_index[i].name)
           /\ store.search_index[i].search_terms = IndexedForms(store.conditions_index[i])


\* ---------------------------------------------------------------------------
\* Claims about the order and the bounds of the combination
\* ---------------------------------------------------------------------------

\* the lists that hold the items of s in another order
Reorderings(s) ==
    {[i \in 1..Len(s) |-> s[f[i]]] :
        f \in {g \in [1..Len(s) -> 1..Len(s)] :
                  \A i, j \in 1..Len(s) : g[i] = g[j] => i = j}}

\* C28: _calculate_combined_rating returns the same total_rating for the
\* conditions in any other order
C28_OrderIndependent ==
    (pc = "done" /\ op = "_calculate_combined_rating")
    => \A p \in Reorderings(arg.conditions) :
           CalculateCombinedRating(p, arg.pre_existing).total_rating = res.total_rating

\* C28: three different resolved ratings whose combination, 57.25, is rounded
\* once at the end to 57
C28_Witness ==
    /\ pc = "done" /\ op = "_calculate_combined_rating"
    /\ ResolvedRatings = <<5, 10, 50>>
    /\ res.total_rating = 57
    /\ Cardinality(Reorderings(arg.conditions)) = 6


\* the largest and the sum of a list of ratings
RECURSIVE SumOf(_)
SumOf(ratings) == IF ratings = <<>> THEN 0 ELSE Head(ratings) + SumOf(Tail(ratings))

LargestOf(ratings) == SetMax({ratings[i] : i \in 1..Len(ratings)})

\* C22: the combined rating is at least the largest and at most the sum,
\* capped at 100, of the ratings of the resolved conditions; a case of
\* assess_case or calculate_rating in which a condition resolves has a
\* combined rating above 0
C22_CombinedBetweenLargestAndSum ==
    (Combined /\ ResolvedRatings # <<>>)
    => /\ TotalReturned >= LargestOf(ResolvedRatings)
       /\ TotalReturned <= Min2(100, SumOf(ResolvedRatings))
       /\ op \in {"assess_case", "calculate_rating"} => TotalReturned > 0

\* C22: a case with two resolved conditions whose combined rating lies
\* strictly between the larger rating and the sum of the two
C22_Witness ==
    /\ Combined /\ op = "assess_case"
    /\ Len(ResolvedRatings) = 2
    /\ TotalReturned > LargestOf(ResolvedRatings)
    /\ TotalReturned < SumOf(ResolvedRatings)
    /\ SumOf(ResolvedRatings) < 100


(***************************************************************************)
(* The chapter listings called again and again, with other operations of   *)
(* the store between the calls                                             *)
(***************************************************************************)
\* the caller of a listing keeps the result of the first call of each
\* operation with each argument
ReturnKept ==
    /\ pc = "done"
    /\ pc' = "idle"
    /\ op' = "none"
    /\ arg' = <<>>
    /\ res' = <<>>
    /\ returned' =
           IF \/ op \notin {"get_chapter_conditions", "get_all_chapters"}
              \/ \E k \in 1..Len(returned) : returned[k].op = op /\ returned[k].arg = arg
           THEN returned
           ELSE Append(returned, [op |-> op, arg |-> arg, res |-> res])
    /\ UNCHANGED <<store, calls, heap>>

NextListings ==
    \/ CallGetChapterConditions
    \/ CallGetAllChapters
    \/ CallGetConditionRatingInfo
    \/ CallValidateData
    \/ ReturnKept

SpecListings == InitStore /\ [][NextListings]_vars

\* the results kept of earlier calls of the operation of the call in
\* progress with its argument
EarlierResults ==
    {returned[k].res : k \in {j \in 1..Len(returned) :
                                  returned[j].op = op /\ returned[j].arg = arg}}

\* the positions of the store conditions of a chapter
InChapter(chapter_id) ==
    {i \in 1..Len(store.conditions_index) :
        store.conditions_index[i].chapter = chapter_id}

\* a list holds each item of the store list at the positions `at`, once
HoldsOnce(list, stored, at) ==
    /\ Len(list) = Cardinality(at)
    /\ \A i \in at : \E k \in 1..Len(list) : list[k] = stored[i]
    /\ \A k \in 1..Len(list) : \E i \in at : list[k] = stored[i]

\* C26: get_chapter_conditions(c) returns the store conditions of chapter c,
\* each once, in non-decreasing order of name; get_all_chapters returns the
\* chapters of the store, each once, in non-decreasing order of id, each with
\* the number of conditions get_chapter_conditions returns for it; a call
\* returns what every earlier call of the same operation with the same
\* argument returned
C26_ChapterListings ==
    /\ (pc = "done" /\ op = "get_chapter_conditions") =>
           /\ HoldsOnce(res, store.conditions_index, InChapter(arg.chapter_id))
           /\ \A k \in 1..(Len(res) - 1) : StrLE(res[k].name, res[k + 1].name)
           /\ \A earlier \in EarlierResults : res = earlier
    /\ (pc = "done" /\ op = "get_all_chapters") =>
           /\ Len(res) = Len(store.chapters_index)
           /\ \A i \in 1..Len(store.chapters_index) :
                  \E k \in 1..Len(res) :
                      /\ res[k].id = store.chapters_index[i].id
                      /\ res[k].title = store.chapters_index[i].title
                      /\ res[k].conditions = store.chapters_index[i].conditions
           /\ \A k \in 1..(Len(res) - 1) : IdLE(res[k].id, res[k + 1].id)
           /\ \A k \in 1..Len(res) :
                  res[k].condition_count = Cardinality(InChapter(res[k].id))
           /\ \A earlier \in EarlierResults : res = earlier

\* C26: the two conditions of chapter ch1 are returned in the order of their
\* names, "Ab" before "ba ", the reverse of their order in the store, by a
\* call that follows an earlier call for ch1 and a call of get_all_chapters
C26_Witness ==
    /\ pc = "done" /\ op = "get_chapter_conditions"
    /\ arg.chapter_id = "ch1"
    /\ Len(res) = 2
    /\ res[1].id = "c3" /\ res[2].id = "c2"
    /\ EarlierResults # {}
    /\ \E k \in 1..Len(returned) : returned[k].op = "get_all_chapters"

\* C26: the two chapters of the store are returned in the order of their
\* ids, the reverse of their order in the store, with 2 and 1 conditions
C26_WitnessChapters ==
    /\ pc = "done" /\ op = "get_all_chapters"
    /\ Len(res) = 2
    /\ res[1].id = "ch1" /\ res[1].condition_count = 2
    /\ res[2].id = "ch2" /\ res[2].condition_count = 1
    /\ store.chapters_index[1].id = "ch2"
    /\ EarlierResults # {}


\* every snippet of the evidence has text content
TextEvidence(medical_evidence) ==
    \A i \in 1..Len(medical_evidence) : medical_evidence[i].content.type = "str"

\* the ratings of the entries, resolved or not, in input order
RatingsOf(entries) == [i \in 1..Len(entries) |-> entries[i].rating]

\* the cases with the conditions of the case of the call and any other
\* pre-existing conditions and text evidence
SameConditionsCases ==
    {k \in Cases : k.conditions = arg.conditions /\ TextEvidence(k.medical_evidence)}

\* C27: a case with text evidence that assess_case has assessed gets the same
\* individual ratings and the same total rating with any other pre-existing
\* conditions and any other text evidence, and calculate_rating returns the
\* same total rating and method for its conditions
C27_RatingsDependOnConditionsOnly ==
    (/\ pc = "done" /\ op = "assess_case" /\ res.raised = ""
     /\ TextEvidence(arg.medical_evidence))
    => /\ \A k \in SameConditionsCases :
              Let(AssessCase(store.search_index, k), LAMBDA other :
                  /\ other.raised = ""
                  /\ RatingsOf(other.value.individual_conditions)
                         = RatingsOf(res.value.individual_conditions)
                  /\ other.value.total_disability_rating
                         = res.value.total_disability_rating)
       /\ \A pre \in PreExistingLists :
              Let(CalculateRating(store.search_index,
                                  [conditions |-> arg.conditions, pre_existing |-> pre]),
                  LAMBDA direct :
                      /\ direct.total_rating = res.value.total_disability_rating
                      /\ direct.method = res.value.combined_rating_breakdown.method)

\* C27: a case of two resolved conditions assessed with evidence that mentions
\* one of them and with a pre-existing condition, while the case with the same
\* conditions, no evidence and no pre-existing condition is another case
C27_Witness ==
    /\ pc = "done" /\ op = "assess_case" /\ res.raised = ""
    /\ TextEvidence(arg.medical_evidence)
    /\ arg.medical_evidence # <<>> /\ arg.pre_existing # <<>>
    /\ Len(ResolvedRatings) = 2
    /\ res.value.individual_conditions[1].medical_evidence_support.evidence_count = 1
    /\ Cardinality(SameConditionsCases) = 4


(***************************************************************************)
(* VACRatingEngine._get_criteria_met                                       *)
(***************************************************************************)
\* SymptomMatches that only looks for the supplied symptom inside the symptom
\* of the reference condition
SymptomMatches_oneWay(symptom, tod_symptom) ==
    Contains(Lower(tod_symptom), Lower(symptom))

\* symptom.lower() in tod_symptom.lower() or tod_symptom.lower() in symptom.lower()
SymptomMatches(symptom, tod_symptom) ==
    \/ Contains(Lower(tod_symptom), Lower(symptom))
    \/ Contains(Lower(symptom), Lower(tod_symptom))

\* matching_symptoms: the supplied symptoms that match a symptom of the
\* reference condition
MatchingSymptoms(symptoms, tod_symptoms) ==
    SelectSeq(symptoms, LAMBDA symptom :
        \E k \in 1..Len(tod_symptoms) : SymptomMatches(symptom, tod_symptoms[k]))

\* `for symptom in symptoms`: the items of a list, the characters of a str
SymptomItems(symptoms) ==
    IF symptoms.type = "str" THEN [i \in 1..Len(symptoms.val) |-> <<symptoms.val[i]>>]
    ELSE symptoms.val

\* _get_criteria_met(condition, symptoms), for symptoms a list of str, a str
\* or None
GetCriteriaMet(condition, symptoms) ==
    <<"condition_identified", "tod_match_found">>
    \o (IF Truthy(symptoms) THEN <<"symptoms_documented">> ELSE <<>>)
    \o (IF /\ condition.symptoms # <<>>
           /\ Truthy(symptoms)
           /\ MatchingSymptoms(SymptomItems(symptoms), condition.symptoms) # <<>>
        THEN <<"symptoms_match_tod">> ELSE <<>>)

\* the longest list of symptoms handed to _get_criteria_met
MaxSymptoms == 2

\* the symptoms of the calls: "", "b", "AB", "abc", "zz"
CriteriaSymptoms == {<<>>, <<98>>, <<65, 66>>, <<97, 98, 99>>, <<122, 122>>}

\* _get_criteria_met is called with the resolved condition and the symptoms
\* of the case
CallGetCriteriaMet ==
    /\ pc = "idle"
    /\ \E tod_symptoms \in SeqsUpTo(CriteriaSymptoms, MaxSymptoms),
          symptoms \in {PyList(s) : s \in SeqsUpTo(CriteriaSymptoms, MaxSymptoms)}
                           \cup {PyNone} :
           Call("_get_criteria_met",
                [condition |-> Condition("c1", <<65, 98>>, <<>>, tod_symptoms),
                 symptoms |-> symptoms],
                GetCriteriaMet(Condition("c1", <<65, 98>>, <<>>, tod_symptoms), symptoms),
                <<Appended(Fresh)>>)

\* the criteria of the result
Criteria == {res[k] : k \in 1..Len(res)}

\* the symptoms supplied to the call
Supplied == IF arg.symptoms.type = "list" THEN arg.symptoms.val ELSE <<>>

MaxLimited == 2

\* the names of the assessed conditions: "PTSD", "back", "ptsd back" (terms of
\* two categories), "Neck arm" (terms of two categories), "zz" (no term)
LimitedNames ==
    {<<80, 84, 83, 68>>, T_back, T_ptsd \o <<32>> \o T_back,
     <<78, 101, 99, 107, 32>> \o T_arm, <<122, 122>>}

\* the assessed conditions handed to _assess_functional_limitations, one of
\* them without a name
LimitedEntries ==
    {[condition |-> n, tod_found |-> f, rating |-> r] :
        n \in {PyStr(t) : t \in LimitedNames} \cup {PyNone},
        f \in BOOLEAN, r \in {49, 50, 76}}

CallAssessFunctionalLimitations ==
    /\ pc = "idle"
    /\ \E conditions \in SeqsUpTo(LimitedEntries, MaxLimited) :
           Call("_assess_functional_limitations", [conditions |-> conditions],
                AssessFunctionalLimitations(conditions),
                <<Appended(Fresh)>>)

\* the impact levels of the calls: the four of base_recommendations and one
\* it lacks
ImpactLevels == {"mild", "moderate", "moderate_to_severe", "severe", "none"}

\* lists of limitations that _assess_functional_limitations does not make:
\* ["mental_health"], ["Mental"], ["environmental"], ["men", "tal"]
OtherLimitations ==
    {<<<<109, 101, 110, 116, 97, 108, 95, 104, 101, 97, 108, 116, 104>>>>,
     <<<<77, 101, 110, 116, 97, 108>>>>,
     <<<<101, 110, 118, 105, 114, 111, 110, 109, 101, 110, 116, 97, 108>>>>,
     <<<<109, 101, 110>>, <<116, 97, 108>>>>}

\* the lists of limitations handed to _generate_qol_recommendations: those
\* _assess_functional_limitations returns and the others
LimitationLists ==
    {AssessFunctionalLimitations(conditions).value :
        conditions \in {l \in SeqsUpTo(LimitedEntries, MaxLimited) :
                           AssessFunctionalLimitations(l).raised = ""}}
    \cup OtherLimitations

CallGenerateQolRecommendations ==
    /\ pc = "idle"
    /\ \E impact_level \in ImpactLevels, limitations \in LimitationLists :
           Call("_generate_qol_recommendations",
                [impact_level |-> impact_level, limitations |-> limitations],
                GenerateQolRecommendations(impact_level, limitations),
                <<Appended(Fresh)>>)

NextHelpers ==
    \/ CallGetCriteriaMet
    \/ CallAssessFunctionalLimitations
    \/ CallGenerateQolRecommendations
    \/ Return

SpecHelpers == Init /\ [][NextHelpers]_vars


\* the limitations of every category one of whose terms the lower-cased name
\* of a found condition rated 50 or more contains
LimitationsOfEveryCategory(condition) ==
    IF ~condition.tod_found \/ condition.rating < 50 THEN {}
    ELSE UNION {LimitationCategories[k].limitations :
                   k \in {j \in 1..Len(LimitationCategories) :
                             \E t \in LimitationCategories[j].terms :
                                 Contains(Lower(condition.condition.val), t)}}

\* the limitation labels in the order of str
SortedLimitations ==
    <<T_bending, T_climbing, T_concentration, T_decision_making,
      T_fine_motor, T_grasping, T_headaches, T_lifting, T_memory, T_mobility,
      T_neck_movement, T_prolonged_sitting, T_reaching, T_running,
      T_social_interaction, T_standing, T_walking>>

\* the found entries of the call have a name that is a str, as the entries
\* of an assessment have
LimitedByName ==
    /\ pc = "done" /\ op = "_assess_functional_limitations"
    /\ \A n \in 1..Len(arg.conditions) :
           arg.conditions[n].tod_found => arg.conditions[n].condition.type = "str"

\* C24: the functional limitations are, sorted and without duplicates, those
\* of every category whose terms occur in the name of a resolved condition
\* rated 50 or more
C24_LimitationsOfEveryCategory ==
    LimitedByName
    => /\ res.raised = ""
       /\ res.value = SelectSeq(SortedLimitations,
                          LAMBDA l : \E n \in 1..Len(arg.conditions) :
                              l \in LimitationsOfEveryCategory(arg.conditions[n]))

\* what holds of C24: the limitations are those of the first category, in
\* the order of the elif chain, whose terms occur in the name
LimitationsOfFirstCategory ==
    LimitedByName
    => /\ res.raised = ""
       /\ res.value = SelectSeq(SortedLimitations,
                          LAMBDA l : \E n \in 1..Len(arg.conditions) :
                              /\ LimitationsOfEveryCategory(arg.conditions[n]) # {}
                              /\ l \in LimitationCategories[
                                     CHOOSE k \in 1..Len(LimitationCategories) :
                                         /\ \E t \in LimitationCategories[k].terms :
                                                Contains(Lower(arg.conditions[n].condition.val), t)
                                         /\ \A j \in 1..(k - 1) :
                                                \A t \in LimitationCategories[j].terms :
                                                    ~Contains(Lower(arg.conditions[n].condition.val), t)
                                     ].limitations)


\* the combination result carries a step trace
HasTrace ==
    /\ "calculation_details" \in DOMAIN Breakdown
    /\ "combination_steps" \in DOMAIN Breakdown.calculation_details

\* the step trace of the combination result
Trace == Breakdown.calculation_details.combination_steps

\* the running total of the rule after the first k ratings, as <<c, scale>>
RunningTotal(k) == RuleFold(ResolvedRatings[1], 1, SubSeq(ResolvedRatings, 2, k))

\* the number of tenths t is the total c/scale to one decimal
ShowsToOneDecimal(t, total) ==
    LET diff == 10 * total[1] - t * total[2]
    IN 2 * (IF diff < 0 THEN -diff ELSE diff) <= total[2]

\* the trace of N resolved ratings: for N = 1 a single line with the rating;
\* for N > 1 the seed line, a line for each of the steps 1..N-1 with the total
\* before, the rating and the total after, and a summary line with the
\* reported total
TraceFollowsRatings ==
    LET N == Len(ResolvedRatings)
    IN IF N = 1
       THEN Trace = <<[line |-> "Single condition", rating |-> ResolvedRatings[1]]>>
       ELSE /\ Len(Trace) = N + 1
            /\ Trace[1] = [line |-> "Start with highest rating",
                           combined |-> ResolvedRatings[1]]
            /\ \A i \in 1..(N - 1) :
                   /\ Trace[i + 1].line = "Step"
                   /\ Trace[i + 1].i = i
                   /\ Trace[i + 1].old_combined
                          = [n |-> RunningTotal(i)[1], d |-> RunningTotal(i)[2]]
                   /\ Trace[i + 1].rating = ResolvedRatings[i + 1]
                   /\ Trace[i + 1].combined # {}
                   /\ \A t \in Trace[i + 1].combined :
                          ShowsToOneDecimal(t, RunningTotal(i + 1))
            /\ Trace[N + 1] = [line |-> "Final combined rating",
                               combined |-> TotalReturned]

T_PTSD == <<80, 84, 83, 68>>

T_lower_back_pain == <<108, 111, 119, 101, 114, 32, 98, 97, 99, 107, 32, 112, 97, 105, 110>>

\* "nightmares", "anxiety", "depression", "insomnia"
PtsdSymptoms ==
    PyList(<<<<110, 105, 103, 104, 116, 109, 97, 114, 101, 115>>,
                <<97, 110, 120, 105, 101, 116, 121>>,
                <<100, 101, 112, 114, 101, 115, 115, 105, 111, 110>>,
                <<105, 110, 115, 111, 109, 110, 105, 97>>>>)

\* "chronic pain", "limited mobility", "muscle spasms"
BackSymptoms ==
    PyList(<<<<99, 104, 114, 111, 110, 105, 99, 32, 112, 97, 105, 110>>,
                <<108, 105, 109, 105, 116, 101, 100, 32, 109, 111, 98, 105, 108, 105, 116, 121>>,
                <<109, 117, 115, 99, 108, 101, 32, 115, 112, 97, 115, 109, 115>>>>)

\* the two medical reports of the test: "Patient diagnosed with PTSD" and
\* "Lower back injury from service"
ScenarioEvidence ==
    <<Evidence(PyStr(<<80, 97, 116, 105, 101, 110, 116, 32, 100, 105, 97, 103, 110, 111, 115,
        101, 100, 32, 119, 105, 116, 104, 32, 80, 84, 83, 68>>)),
      Evidence(PyStr(<<76, 111, 119, 101, 114, 32, 98, 97, 99, 107, 32, 105, 110, 106, 117,
          114, 121, 32, 102, 114, 111, 109, 32, 115, 101, 114, 118, 105, 99, 101>>))>>

\* the conditions of the test case: PTSD, moderate, four symptoms; lower back
\* pain, severe, three symptoms
ScenarioConditions ==
    <<CaseCondition(PyStr(T_PTSD), PyStr(T_moderate), PtsdSymptoms),
      CaseCondition(PyStr(T_lower_back_pain), PyStr(T_severe), BackSymptoms)>>

\* the severity labels of the scenario's cases
ScenarioSeverities ==
    {PyStr(T_minimal), PyStr(T_mild), PyStr(T_moderate), PyStr(T_moderately_severe),
     PyStr(T_severe), PyStr(T_very_severe), PyStr(T_total)}

\* the cases: the two conditions of the test under every pair of severities,
\* with and without the medical reports, with and without a pre-existing
\* condition
ScenarioCases ==
    {[conditions |-> <<[ScenarioConditions[1] EXCEPT !.severity = s1],
                       [ScenarioConditions[2] EXCEPT !.severity = s2]>>,
      pre_existing |-> pre, medical_evidence |-> ev] :
        s1 \in ScenarioSeverities, s2 \in ScenarioSeverities,
        pre \in PreExistingLists, ev \in {<<>>, ScenarioEvidence}}

\* datasets in which both names resolve: by the name ("PTSD", "Lower Back
\* Pain"), in either order; by a keyword ("Stress disorder" with keyword
\* "PTSD", "Lumbar strain" with keyword "lower back pain"); by likeness
\* ("PTSD (chronic)", "Low back pain")
ScenarioDatasets ==
    {<<Condition("c1", T_PTSD, <<>>, <<>>),
       Condition("c2", <<76, 111, 119, 101, 114, 32, 66, 97, 99, 107, 32, 80, 97, 105, 110>>,
           <<>>, <<>>)>>,
     <<Condition("c1", <<76, 111, 119, 101, 114, 32, 66, 97, 99, 107, 32, 80, 97, 105, 110>>,
         <<>>, <<>>),
       Condition("c2", T_PTSD, <<>>, <<>>)>>,
     <<Condition("c1", <<83, 116, 114, 101, 115, 115, 32, 100, 105, 115, 111, 114, 100, 101, 114>>,
                 <<T_PTSD>>, <<>>),
       Condition("c2", <<76, 117, 109, 98, 97, 114, 32, 115, 116, 114, 97, 105, 110>>,
                 <<T_lower_back_pain>>, <<>>)>>,
     <<Condition("c1", <<80, 84, 83, 68, 32, 40, 99, 104, 114, 111, 110, 105, 99, 41>>, <<>>, <<>>),
       Condition("c2", <<76, 111, 119, 32, 98, 97, 99, 107, 32, 112, 97, 105, 110>>, <<>>, <<>>)>>}

InitEndToEnd ==
    /\ store \in {BuildStore(d) : d \in ScenarioDatasets}
    /\ pc = "idle"
    /\ op = "none"
    /\ arg = <<>>
    /\ res = <<>>
    /\ calls = <<>>
    /\ heap = <<>>
    /\ returned = <<>>

CallAssessScenario ==
    /\ pc = "idle"
    /\ \E case_data \in ScenarioCases :
           Call("assess_case", case_data, AssessCase(store.search_index, case_data),
                WritesOfAssessCase(case_data))

NextEndToEnd ==
    \/ CallAssessScenario
    \/ Return

SpecEndToEnd == InitEndToEnd /\ [][NextEndToEnd]_vars

\* the test case has been assessed: PTSD moderate and lower back pain severe,
\* no pre-existing condition
ScenarioAssessed ==
    /\ pc = "done"
    /\ op = "assess_case"
    /\ arg.conditions = ScenarioConditions
    /\ arg.pre_existing = <<>>

\* C21: over a store in which both names resolve, the case PTSD (moderate,
\* four symptoms) and lower back pain (severe, three symptoms) without
\* pre-existing conditions gives two entries, both resolved, rated 38 and 76,
\* a combined rating above both, the method "vac_combination_formula" and the
\* confidence "medium"
C21_EndToEnd ==
    ScenarioAssessed
    => /\ res.raised = ""
       /\ Len(res.value.individual_conditions) = 2
       /\ \A i \in 1..2 : res.value.individual_conditions[i].tod_found
       /\ res.value.individual_conditions[1].rating = 38
       /\ res.value.individual_conditions[2].rating = 76
       /\ res.value.total_disability_rating > 38
       /\ res.value.total_disability_rating > 76
       /\ res.value.combined_rating_breakdown.method = "vac_combination_formula"
       /\ res.value.combined_rating_breakdown.confidence = "medium"
       /\ res.value.assessment_confidence = "medium"

\* C21: the test case assessed with its two medical reports over the store
\* that resolves the names by likeness; the combined rating is 85
C21_Witness ==
    /\ ScenarioAssessed
    /\ arg.medical_evidence = ScenarioEvidence
    /\ store.conditions_index[2].name = <<76, 111, 119, 32, 98, 97, 99, 107, 32, 112, 97, 105, 110>>
    /\ res.raised = ""
    /\ res.value.individual_conditions[1].tod_condition_id = "c1"
    /\ res.value.individual_conditions[2].tod_condition_id = "c2"
    /\ res.value.individual_conditions[1].medical_evidence_support.evidence_count = 1
    /\ res.value.individual_conditions[2].medical_evidence_support.evidence_count = 0
    /\ res.value.total_disability_rating = 85

====
